---- MODULE Spec2Model ----
(***************************************************************************)
(* A model of smart_rpc: the wire codec (messages.py), the error taxonomy  *)
(* (errors.py), the method dispatcher (message_hander.py) and the client's *)
(* send (client.py).                                                       *)
(*                                                                         *)
(* Text.  A Python str is a sequence of characters.  A character is either *)
(* one of the structural characters the codec and the JSON layer look at   *)
(* ('{', '}', '"', ':', ',') or a token: a run of other characters that    *)
(* the code never looks into ("m", "trace_id", "t1", ...).  No token is a  *)
(* JSON literal or a number, so a bare token is never valid JSON.  Indices *)
(* are Python's: 0-based, -1 for "not found".                              *)
(*                                                                         *)
(* JSON.  A JSON value is a tagged pair: <<"str", chars>> for a string,    *)
(* <<"obj", pairs>> for an object, pairs being the sequence of             *)
(* <<key, value>> in insertion order (a Python dict), and <<"none", <<>>>> *)
(* for Python's None.  An int is <<"int", <<n>>>>.                          *)
(***************************************************************************)
EXTENDS Integers, Sequences, FiniteSets, TLC

LBRACE == "{"
RBRACE == "}"
QUOTE == "\""
COLON == ":"
COMMA == ","
\* A byte that is not valid UTF-8 (0xff); it exists only before decode('utf-8').
BAD_BYTE == "\\xff"

Min(S) == CHOOSE x \in S : \A y \in S : x <= y

\* str.find(ch, start): the lowest 0-based index >= start holding ch, or -1.
Find(s, ch, start) ==
    LET hits == {i \in start..(Len(s) - 1) : s[i + 1] = ch}
    IN  IF hits = {} THEN -1 ELSE Min(hits)

\* s[a:b] for 0 <= a, Python's clamping of b to len(s) included.
Slice(s, a, b) ==
    LET e == IF b > Len(s) THEN Len(s) ELSE b
    IN  IF a >= e THEN <<>> ELSE SubSeq(s, a + 1, e)

\* s[a:]
SliceFrom(s, a) == Slice(s, a, Len(s))

\* bytes.decode('utf-8'): fails on any byte sequence that is not UTF-8.
Utf8Decodable(data) == \A i \in 1..Len(data) : data[i] # BAD_BYTE

(***************************************************************************)
(* JSON values and Python dicts.                                           *)
(***************************************************************************)
NONE == <<"none", <<>>>>
JStr(chars) == <<"str", chars>>
JObj(pairs) == <<"obj", pairs>>
JInt(n) == <<"int", <<n>>>>
EmptyDict == JObj(<<>>)

IsStr(v) == v[1] = "str"
IsObj(v) == v[1] = "obj"

\* Python truthiness of a value: None, '' and {} are falsy.
Truthy(v) == v[1] # "none" /\ Len(v[2]) > 0

DictKeys(d) == {d[2][i][1] : i \in 1..Len(d[2])}
DictHas(d, k) == k \in DictKeys(d)

\* d[k] for a key that is present.
DictAt(d, k) == d[2][CHOOSE i \in 1..Len(d[2]) : d[2][i][1] = k][2]

\* d.get(k): None when absent.
DictGet(d, k) == IF DictHas(d, k) THEN DictAt(d, k) ELSE NONE

\* d[k] = v: overwrite in place, or append.
DictSet(d, k, v) ==
    IF DictHas(d, k)
    THEN JObj([i \in 1..Len(d[2]) |->
                 IF d[2][i][1] = k THEN <<k, v>> ELSE d[2][i]])
    ELSE JObj(Append(d[2], <<k, v>>))

\* dict equality: the same keys with the same values, in any order.
RECURSIVE JsonEq(_, _)
JsonEq(a, b) ==
    IF a[1] # b[1] THEN FALSE
    ELSE IF a[1] = "obj"
    THEN /\ DictKeys(a) = DictKeys(b)
         /\ \A k \in DictKeys(a) : JsonEq(DictAt(a, k), DictAt(b, k))
    ELSE a[2] = b[2]

(***************************************************************************)
(* orjson.dumps: compact JSON, no whitespace, keys in insertion order.     *)
(* The strings of the model hold no '"', '\' or control character, so      *)
(* nothing is escaped.                                                     *)
(***************************************************************************)
RECURSIVE Dumps(_)
RECURSIVE DumpPairs(_, _)
DumpPairs(pairs, i) ==
    IF i > Len(pairs) THEN <<>>
    ELSE (IF i > 1 THEN <<COMMA>> ELSE <<>>)
         \o <<QUOTE>> \o pairs[i][1] \o <<QUOTE, COLON>>
         \o Dumps(pairs[i][2])
         \o DumpPairs(pairs, i + 1)

Dumps(v) ==
    IF IsStr(v) THEN <<QUOTE>> \o v[2] \o <<QUOTE>>
    ELSE IF v[1] = "int" THEN <<ToString(v[2][1])>>
    ELSE <<LBRACE>> \o DumpPairs(v[2], 1) \o <<RBRACE>>

(***************************************************************************)
(* orjson.loads: a recursive-descent parse of the text from position 1.    *)
(* A parse step returns [ok, val, next]: next is the 1-based position      *)
(* after the value.  The whole text must be one value.                     *)
(***************************************************************************)
ParseFail == [ok |-> FALSE, val |-> NONE, next |-> 0]

\* A string starts at the quote s[i] and ends at the next quote.
ParseString(s, i) ==
    IF i > Len(s) \/ s[i] # QUOTE THEN ParseFail
    ELSE LET close == Find(s, QUOTE, i)   \* 0-based search from index i = 1-based i+1
         IN  IF close = -1 THEN ParseFail
             ELSE [ok |-> TRUE,
                   val |-> JStr(Slice(s, i, close)),
                   next |-> close + 2]

RECURSIVE ParseValue(_, _)
RECURSIVE ParseMembers(_, _, _)
\* Members of an object from position i, acc the dict so far; a repeated key
\* keeps its first position and takes the last value, as a Python dict does.
ParseMembers(s, i, acc) ==
    LET key == ParseString(s, i)
    IN  IF ~key.ok THEN ParseFail
        ELSE IF key.next > Len(s) \/ s[key.next] # COLON THEN ParseFail
        ELSE LET v == ParseValue(s, key.next + 1)
             IN  IF ~v.ok \/ v.next > Len(s) THEN ParseFail
                 ELSE LET acc2 == DictSet(acc, key.val[2], v.val)
                      IN  IF s[v.next] = RBRACE
                          THEN [ok |-> TRUE, val |-> acc2, next |-> v.next + 1]
                          ELSE IF s[v.next] = COMMA
                          THEN ParseMembers(s, v.next + 1, acc2)
                          ELSE ParseFail

ParseValue(s, i) ==
    IF i > Len(s) THEN ParseFail
    ELSE IF s[i] = QUOTE THEN ParseString(s, i)
    ELSE IF s[i] = LBRACE
    THEN IF i + 1 <= Len(s) /\ s[i + 1] = RBRACE
         THEN [ok |-> TRUE, val |-> EmptyDict, next |-> i + 2]
         ELSE ParseMembers(s, i + 1, EmptyDict)
    ELSE ParseFail

\* [ok, val]: ok is FALSE where orjson.loads raises JSONDecodeError.
Loads(s) ==
    LET r == ParseValue(s, 1)
    IN  IF r.ok /\ r.next = Len(s) + 1
        THEN [ok |-> TRUE, val |-> r.val]
        ELSE [ok |-> FALSE, val |-> NONE]

(***************************************************************************)
(* Results of a call: either a value or a raised exception.                *)
(***************************************************************************)
NoError == [cls |-> "none"]
Return(v) == [ok |-> TRUE, val |-> v, err |-> NoError]
Raise(e) == [ok |-> FALSE, val |-> NONE, err |-> e]

(***************************************************************************)
(* Exceptions.  cls identifies the class, name is its __class__.__name__,  *)
(* kind tells whether it derives from Exception or only from              *)
(* BaseException, message is str(exception).  The errors of errors.py      *)
(* carry error_code, details and log_level besides.                        *)
(***************************************************************************)
WARNING == 30
ERROR == 40
CRITICAL == 50

Exc(cls, name, kind, message) ==
    [cls |-> cls, name |-> name, kind |-> kind, message |-> message,
     error_code |-> <<>>, details |-> EmptyDict, log_level |-> 0]

UnicodeDecodeError ==
    Exc("UnicodeDecodeError", <<"UnicodeDecodeError">>, "Exception",
        <<"invalid start byte">>)
JSONDecodeError ==
    Exc("JSONDecodeError", <<"JSONDecodeError">>, "Exception",
        <<"unexpected character">>)
PydanticValidationError ==
    Exc("PydanticValidationError", <<"ValidationError">>, "Exception",
        <<"validation error for schema">>)

\* BaseError.__init__: details is stored as the envelope
\* {'error_code': error_code, 'details': details or {}}.
BaseError(cls, error_code, details, log_level) ==
    [cls |-> cls, name |-> <<cls>>, kind |-> "Exception",
     message |-> error_code,
     error_code |-> error_code,
     details |-> JObj(<< <<(<<"error_code">>), JStr(error_code)>>,
                         <<(<<"details">>),
                           IF Truthy(details) THEN details ELSE EmptyDict>> >>),
     log_level |-> log_level]

\* BaseError.from_base_exception: the details of the wrapping error.
FromBaseExceptionDetails(exception) ==
    JObj(<< <<(<<"exception">>), JStr(exception.name)>>,
            <<(<<"exception_message">>), JStr(exception.message)>> >>)

ValidationError(details) ==
    BaseError("ValidationError", <<"ValidationError">>, details, WARNING)

InvalidMessageFormatDetails ==
    JObj(<< <<(<<"invalid_message_format">>),
              JStr(<<"please check smart_rpc request/response format documentation">>)>> >>)

\* An UnknownMethod error that leaves the method name out of its details.
UnknownMethodErrorWithoutName(method_name) ==
    BaseError("UnknownMethodError", <<"UnknownMethod">>, EmptyDict, WARNING)

UnknownMethodError(method_name) ==
    BaseError("UnknownMethodError", <<"UnknownMethod">>,
              JObj(<< <<(<<"method">>), JStr(method_name)>> >>), WARNING)

MethodInternalError(details) ==
    BaseError("MethodInternalError", <<"MethodInternal">>, details, WARNING)

MaxMessageSizeReceivedError(max_message_size) ==
    BaseError("MaxMessageSizeReceivedError", <<"MaxMessageSizeReceived">>,
              JObj(<< <<(<<"max_message_size">>), JInt(max_message_size)>> >>),
              WARNING)

ConnectionRefusedError ==
    Exc("ConnectionRefusedError", <<"ConnectionRefusedError">>, "Exception",
        <<"Connection refused">>)

\* A FatalError whose log_level is the default of BaseError.
FatalErrorAtWarning(cls, error_code, details) ==
    BaseError(cls, error_code, details, WARNING)

\* FatalError.__init__: log_level=logging.CRITICAL
FatalError(cls, error_code, details) ==
    BaseError(cls, error_code, details, CRITICAL)

ServerFatalError(details) ==
    FatalError("ServerFatalError", <<"ServerFatalError">>, details)

ClientFatalError(details) ==
    FatalError("ClientFatalError", <<"ClientServerError">>, details)

RequestTimeoutError(timeout) ==
    BaseError("RequestTimeoutError", <<"RequestTimeout">>,
              JObj(<< <<(<<"timeout">>), JInt(timeout)>> >>), WARNING)

\* InvalidMessageFormatError(): a ValidationError with fixed details.  The
\* loaders raise ValidationError with the same details instead.
InvalidMessageFormatError ==
    BaseError("InvalidMessageFormatError", <<"ValidationError">>,
              InvalidMessageFormatDetails, WARNING)

\* BaseError.is_fatal
is_fatal(error) == error.log_level = CRITICAL

\* logging.DEBUG and logging.INFO
DEBUG == 10
INFO == 20

\* handle_error(logger, error, log_level, exit_if_fatal=...): the records
\* it hands to the logger, each with the level of the logger method called,
\* and whether it ends the process (sys.exit(1)).
handle_error(error, log_level, exit_if_fatal) ==
    IF exit_if_fatal /\ is_fatal(error)
    THEN [records |-> <<[level |-> ERROR, message |-> error.message],
                        [level |-> ERROR, message |-> <<"Exiting">>]>>,
          exited |-> TRUE]
    ELSE IF log_level > error.log_level
    THEN [records |-> <<>>, exited |-> FALSE]
    ELSE [records |-> <<[level |-> IF error.log_level \in {CRITICAL, ERROR}
                                   THEN error.log_level ELSE WARNING,
                         message |-> error.message]>>,
          exited |-> FALSE]

\* except ValidationError: the class or a subclass of it.
IsValidationError(e) == e.cls \in {"ValidationError", "InvalidMessageFormatError"}

(***************************************************************************)
(* smart_rpc.schema and smart_rpc.constants are not among the sources.     *)
(* From the specification: payload and headers are mappings from strings   *)
(* to JSON values, trace_id is a string, and the zero trace id is a        *)
(* reserved all-zero value.  model_validate accepts a mapping and          *)
(* model_dump returns it.                                                  *)
(***************************************************************************)
ZERO_TRACE_ID == <<"00000000-0000-0000-0000-000000000000">>
K_trace_id == <<"trace_id">>

PayloadSchemaValid(payload) == IsObj(payload)
HeadersSchemaValid(headers) ==
    /\ IsObj(headers)
    /\ DictHas(headers, K_trace_id) => IsStr(DictAt(headers, K_trace_id))
SchemaDump(model) == model

(***************************************************************************)
(* messages.py: Request                                                    *)
(***************************************************************************)
\* Request.__init__; fresh is the value uuid4() returns when it is called.
RequestInit(method_name, trace_id, payload, headers, fresh) ==
    LET payload1 == IF Truthy(payload) THEN payload ELSE EmptyDict
        headers1 == IF Truthy(headers) THEN headers ELSE EmptyDict
        tid == IF Truthy(trace_id) THEN trace_id ELSE JStr(fresh)
        headers2 == DictSet(headers1, K_trace_id, tid)
    IN  IF PayloadSchemaValid(payload1) /\ HeadersSchemaValid(headers2)
        THEN Return([method_name |-> method_name,
                     trace_id |-> tid,
                     payload |-> payload1,
                     headers |-> headers2])
        ELSE Raise(ValidationError(FromBaseExceptionDetails(PydanticValidationError)))

\* A format test that forgets position 0 of the payload: an empty method
\* name gets through.
RequestFrameInvalidZeroAllowed(payload_start_at, headers_start_at) ==
    \/ payload_start_at = -1
    \/ headers_start_at \in {-1, 0}
    \/ payload_start_at >= headers_start_at

\* The format test of Request.load (lines 62-66).
RequestFrameInvalid(payload_start_at, headers_start_at) ==
    \/ payload_start_at \in {-1, 0}
    \/ headers_start_at \in {-1, 0}
    \/ payload_start_at >= headers_start_at

\* Request.load
RequestLoad(data, fresh) ==
    IF ~Utf8Decodable(data) THEN Raise(UnicodeDecodeError)
    ELSE
    LET message == data
        payload_start_at == Find(message, LBRACE, 0)
        headers_start_at == Find(message, LBRACE, payload_start_at + 1)
    IN  IF RequestFrameInvalid(payload_start_at, headers_start_at)
        THEN Raise(ValidationError(InvalidMessageFormatDetails))
        ELSE
        LET method_name == Slice(message, 0, payload_start_at)
            payload == Loads(Slice(message, payload_start_at, headers_start_at))
            headers == Loads(SliceFrom(message, headers_start_at))
        IN  IF ~payload.ok \/ ~headers.ok
            THEN Raise(ValidationError(FromBaseExceptionDetails(JSONDecodeError)))
            ELSE RequestInit(method_name,
                             DictGet(headers.val, K_trace_id),
                             payload.val, headers.val, fresh)

\* Request.dump
RequestDump(r) ==
    r.method_name \o Dumps(SchemaDump(r.payload)) \o Dumps(SchemaDump(r.headers))

(***************************************************************************)
(* messages.py: Response                                                   *)
(***************************************************************************)
\* Response.__init__
ResponseInit(method_name, trace_id, success, payload, headers) ==
    LET payload1 == IF Truthy(payload) THEN payload ELSE EmptyDict
        headers1 == IF Truthy(headers) THEN headers ELSE EmptyDict
    IN  IF PayloadSchemaValid(payload1) /\ HeadersSchemaValid(headers1)
        THEN Return([method_name |-> method_name,
                     trace_id |-> trace_id,
                     success |-> success,
                     payload |-> payload1,
                     headers |-> headers1])
        ELSE Raise(ValidationError(FromBaseExceptionDetails(PydanticValidationError)))

\* The format test of Response.load (lines 163-169).
ResponseFrameInvalid(success_start_at, payload_start_at, headers_start_at) ==
    \/ payload_start_at \in {-1, 0}
    \/ success_start_at \in {-1, 0}
    \/ headers_start_at \in {-1, 0}
    \/ success_start_at >= headers_start_at
    \/ payload_start_at >= headers_start_at

\* A test for None only: an empty trace_id gets through.
TraceIdMissingNoneOnly(trace_id) == trace_id = NONE

\* `if not trace_id` (line 181): None and '' are missing.
TraceIdMissing(trace_id) == ~Truthy(trace_id)

\* Response.load; the JSON segments are parsed outside any try.
ResponseLoad(data) ==
    IF ~Utf8Decodable(data) THEN Raise(UnicodeDecodeError)
    ELSE
    LET message == data
        success_start_at == Find(message, COLON, 0)
        payload_start_at == Find(message, LBRACE, success_start_at + 1)
        headers_start_at == Find(message, LBRACE, payload_start_at + 1)
    IN  IF ResponseFrameInvalid(success_start_at, payload_start_at, headers_start_at)
        THEN Raise(ValidationError(InvalidMessageFormatDetails))
        ELSE
        LET method_name == Slice(message, 0, success_start_at)
            success == Slice(message, success_start_at + 1, payload_start_at) = <<"ok">>
            payload == Loads(Slice(message, payload_start_at, headers_start_at))
            headers == Loads(SliceFrom(message, headers_start_at))
        IN  IF ~payload.ok \/ ~headers.ok THEN Raise(JSONDecodeError)
            ELSE
            LET trace_id == DictGet(headers.val, K_trace_id)
            IN  IF TraceIdMissing(trace_id)
                THEN Raise(ValidationError(
                         JObj(<< <<K_trace_id, JStr(<<"must be set">>)>> >>)))
                ELSE ResponseInit(method_name, trace_id, success,
                                  payload.val, headers.val)

\* Response.dump
ResponseDump(r) ==
    r.method_name \o <<COLON>>
    \o (IF r.success THEN <<"ok">> ELSE <<"err">>)
    \o Dumps(SchemaDump(r.payload)) \o Dumps(SchemaDump(r.headers))

\* A tag that ignores the severity.
ErrorTagIgnoringSeverity(log_level) == <<"__error">>

\* The reserved method name of an error response without a request.
ErrorTag(log_level) ==
    IF log_level \in {CRITICAL, ERROR} THEN <<"__error">> ELSE <<"__warning">>

\* response_from_error(error, request): request is <<>> for None, <<r>> for r.
response_from_error(error, request) ==
    ResponseInit(
        IF Len(request) > 0 THEN request[1].method_name ELSE ErrorTag(error.log_level),
        IF Len(request) > 0 THEN request[1].trace_id ELSE JStr(ZERO_TRACE_ID),
        FALSE,
        JObj(<< <<(<<"error_code">>), JStr(error.error_code)>>,
                <<(<<"details">>), error.details>> >>),
        NONE)

(***************************************************************************)
(* message_hander.py: the dispatcher                                       *)
(***************************************************************************)
\* The handlers a test registers: the echo handler of server.py's example,
\* a handler raising an Exception (ValueError), and handlers raising
\* exceptions that derive from BaseException only.
HandlerKinds == {"echo", "raise_value_error", "raise_cancelled"}

HandlerException(func) ==
    IF func = "raise_value_error"
    THEN Exc("ValueError", <<"ValueError">>, "Exception", <<"boom">>)
    ELSE Exc("CancelledError", <<"CancelledError">>, "BaseException", <<>>)

\* await method(request, user)
InvokeHandler(func, request) ==
    IF func = "echo"
    THEN ResponseInit(request.method_name, request.trace_id, TRUE,
                      request.payload,
                      JObj(<< <<K_trace_id, request.trace_id>> >>))
    ELSE Raise(HandlerException(func))

\* A dispatcher catching Exception only: a BaseException escapes.
HandlerFailureCaughtExceptionOnly(error) == error.kind = "Exception"

\* except BaseException (line 82): every exception is caught.
HandlerFailureCaught(error) == error.kind \in {"Exception", "BaseException"}

\* A registration that keeps the handler a name already has (setdefault).
add_method_if_absent(registry, method_name, func) ==
    [n \in (DOMAIN registry) \cup {method_name} |->
        IF n \in DOMAIN registry THEN registry[n] ELSE func]

\* MessageHandler.add_method
add_method(registry, method_name, func) ==
    [n \in (DOMAIN registry) \cup {method_name} |->
        IF n = method_name THEN func ELSE registry[n]]

\* MessageHandler.include: methods.update(message_handler.methods)
include(registry, other) ==
    [n \in (DOMAIN registry) \cup (DOMAIN other) |->
        IF n \in DOMAIN other THEN other[n] ELSE registry[n]]

NoResult == Raise(NoError)

\* MessageHandler.handle.  The record tells what happened on the way:
\* loaded is Request.load's result, invoked whether a handler was called,
\* handler_out what it returned or raised, out what handle returns or raises.
handle(registry, message, fresh) ==
    LET loaded == RequestLoad(message, fresh)
    IN  IF ~loaded.ok
        THEN [loaded |-> loaded, invoked |-> FALSE, handler_out |-> NoResult,
              out |-> IF IsValidationError(loaded.err)
                      THEN response_from_error(loaded.err, <<>>)
                      ELSE Raise(loaded.err)]
        ELSE
        LET request == loaded.val
        IN  IF request.method_name \notin DOMAIN registry
            THEN [loaded |-> loaded, invoked |-> FALSE, handler_out |-> NoResult,
                  out |-> response_from_error(
                              UnknownMethodError(request.method_name), <<>>)]
            ELSE
            LET handler_out == InvokeHandler(registry[request.method_name], request)
            IN  [loaded |-> loaded, invoked |-> TRUE, handler_out |-> handler_out,
                 out |-> IF handler_out.ok THEN handler_out
                         ELSE IF HandlerFailureCaught(handler_out.err)
                         THEN response_from_error(
                                  MethodInternalError(
                                      FromBaseExceptionDetails(handler_out.err)),
                                  <<>>)
                         ELSE Raise(handler_out.err)]

(***************************************************************************)
(* Inputs                                                                  *)
(***************************************************************************)
\* The longest raw frame of the exhaustive part of Frames.
MaxFrameLen == 4

Names == {<<"m">>, <<"u">>, <<"m", COLON, "u">>}
RegistryNames == {<<"m">>, <<"u">>}
Uuids == {<<"uuid-1">>}
TraceIds == {JStr(<<"t1">>), JStr(<<"t2">>)}

Pair(k, v) == <<(<<k>>), v>>
\* {}, flat objects, a string holding '{', nested objects.
FlatPayloads ==
    {EmptyDict,
     JObj(<<Pair("a", JStr(<<"x">>))>>),
     JObj(<<Pair("a", JStr(<<"x">>)), Pair("b", JStr(<<"y", COLON>>))>>)}
BracePayloads ==
    {JObj(<<Pair("a", JStr(<<LBRACE>>))>>),
     JObj(<<Pair("a", EmptyDict)>>),
     JObj(<<Pair("a", JObj(<<Pair("b", JStr(<<"x">>))>>))>>)}
Payloads == FlatPayloads \cup BracePayloads
ExtraHeaders ==
    {EmptyDict,
     JObj(<<Pair("h", JStr(<<"x">>))>>),
     JObj(<<Pair("h", JObj(<<Pair("a", JStr(<<LBRACE>>))>>))>>)}

\* Requests as Request(...) constructs them.
ValidRequests ==
    {RequestInit(n, t, p, h, f).val :
        n \in Names, t \in TraceIds \cup {NONE}, p \in Payloads,
        h \in ExtraHeaders, f \in Uuids}

\* Responses as Response(...) constructs them, headers carrying the trace_id.
ValidResponses ==
    {ResponseInit(n, t, s, p, DictSet(h, K_trace_id, t)).val :
        n \in Names, t \in TraceIds, s \in BOOLEAN, p \in Payloads,
        h \in ExtraHeaders}

FrameAlphabet == {"m", LBRACE, RBRACE, QUOTE, BAD_BYTE}
ShortFrames == UNION {[1..n -> FrameAlphabet] : n \in 0..MaxFrameLen}

Delete(s, i) == SubSeq(s, 1, i - 1) \o SubSeq(s, i + 1, Len(s))
Replace(s, i, c) == [s EXCEPT ![i] = c]

RequestFrames == {RequestDump(r) : r \in ValidRequests}
\* Frames without trace_id, with an empty one, and with one that is no string.
OddFrames ==
    {<<"m", LBRACE, RBRACE, LBRACE, RBRACE>>,
     <<"m">> \o Dumps(EmptyDict) \o Dumps(JObj(<<Pair("trace_id", JStr(<<>>))>>)),
     <<"m">> \o Dumps(EmptyDict)
             \o Dumps(JObj(<<Pair("trace_id", JObj(<<Pair("a", JStr(<<"x">>))>>))>>))}
CorruptionBase ==
    {RequestDump(RequestInit(<<"m">>, JStr(<<"t1">>), p, EmptyDict, <<"uuid-1">>).val) :
        p \in Payloads}
CorruptedFrames ==
    UNION {{Delete(w, i) : i \in 1..Len(w)} \cup
           {Replace(w, i, BAD_BYTE) : i \in 1..Len(w)} : w \in CorruptionBase}

Frames == ShortFrames \cup RequestFrames \cup OddFrames \cup CorruptedFrames

\* Response frames: dumps of valid responses, and frames put together from a
\* method name, a status token, a payload and a headers object with no
\* trace_id, an empty one, one that is no string, or a good one.
StatusTokens == {<<"ok">>, <<"err">>, <<"bad">>, <<>>}
HeaderVariants ==
    {EmptyDict,
     JObj(<<Pair("h", JStr(<<"x">>))>>),
     JObj(<<Pair("trace_id", JStr(<<>>))>>),
     JObj(<<Pair("h", JStr(<<"x">>)), Pair("trace_id", JStr(<<>>))>>),
     JObj(<<Pair("trace_id", JObj(<<Pair("a", JStr(<<"x">>))>>))>>),
     JObj(<<Pair("trace_id", JStr(<<"t1">>))>>)}
BuiltResponseFrames ==
    {n \o <<COLON>> \o tok \o Dumps(p) \o Dumps(h) :
        n \in {<<"m">>}, tok \in StatusTokens, p \in Payloads, h \in HeaderVariants}
\* Frames with an empty method name, and frames with three JSON objects
\* after the method name and no status.
OddResponseFrames ==
    {<<COLON, "ok">> \o Dumps(EmptyDict) \o Dumps(JObj(<<Pair("trace_id", JStr(<<"t1">>))>>)),
     <<COLON>> \o Dumps(EmptyDict) \o Dumps(EmptyDict),
     <<"m">> \o Dumps(JObj(<<Pair("a", JStr(<<"x">>))>>)) \o Dumps(EmptyDict)
             \o Dumps(JObj(<<Pair("trace_id", JStr(<<"t1">>))>>)),
     <<"m">> \o Dumps(EmptyDict) \o Dumps(EmptyDict) \o Dumps(EmptyDict)}
\* What Response.load is given: response frames, and request frames too.
ResponseFrames ==
    {ResponseDump(r) : r \in ValidResponses} \cup BuiltResponseFrames
    \cup RequestFrames \cup OddFrames \cup OddResponseFrames

(***************************************************************************)
(* State                                                                   *)
(***************************************************************************)
\* Concurrent callers of BaseClient.send on one client, and how many calls
\* each may make.
NumCallers == 2
MaxSends == 2
Callers == 1..NumCallers

\* Server.max_message_size, in characters of the model, and how many frames
\* the peers send in all.
max_message_size == 12
MaxPeerFrames == 2

\* The peers of the server: f'{address[0]}:{address[1]}' of each connection.
Addresses == {"10.0.0.1:5001", "10.0.0.2:5002"}

VARIABLES
    methods,        \* MessageHandler.methods: method name -> handler
    call,           \* the call in progress: its operation, inputs and result
    locking_event,  \* BaseClient.locking_event: whether the asyncio.Event is set
    pc,             \* where each caller of send is
    sends,          \* how many times each caller has called send
    written,        \* requests written to the connection, not yet answered
    reader_buffer,  \* response frames received, not yet read (StreamReader._buffer)
    reader_waiter,  \* the caller suspended in readuntil, 0 for none (StreamReader._waiter)
    result,         \* the response frame each caller's last send read
    users,          \* Server.users: the addresses that have a User
    srv_pc,         \* where each connection's _handle_connection task is
    link,           \* each connection's transport, as the server's streams see it
    inbound,        \* frames received on each connection, not yet read (StreamReader._buffer)
    outbound,       \* response frames the server has written to each connection
    received,       \* the frames readuntil has returned on each connection
    log             \* what the server's logger was given about each connection

connVars == <<users, srv_pc, link, inbound, outbound, received, log>>
serverVars == <<methods, call, connVars>>
clientVars == <<locking_event, pc, sends, written, reader_buffer, reader_waiter, result>>
vars == <<methods, call, locking_event, pc, sends, written, reader_buffer,
          reader_waiter, result, users, srv_pc, link, inbound, outbound, received,
          log>>

Idle == [op |-> "idle"]
NoFrame == [caller |-> 0, seq |-> 0]

\* The state after construction, the registry aside.
InitRest ==
    /\ call = Idle
    /\ locking_event = FALSE
    /\ pc = [c \in Callers |-> "idle"]
    /\ sends = [c \in Callers |-> 0]
    /\ written = <<>>
    /\ reader_buffer = <<>>
    /\ reader_waiter = 0
    /\ result = [c \in Callers |-> NoFrame]
    /\ users = {}
    /\ srv_pc = [a \in Addresses |-> "none"]
    /\ link = [a \in Addresses |-> "none"]
    /\ inbound = [a \in Addresses |-> <<>>]
    /\ outbound = [a \in Addresses |-> <<>>]
    /\ received = [a \in Addresses |-> <<>>]
    /\ log = [a \in Addresses |-> <<>>]

Init ==
    /\ methods = <<>>
    /\ InitRest

\* The caller takes the result; the next call may start.
Done ==
    /\ call.op # "idle"
    /\ call' = Idle
    /\ UNCHANGED <<methods, clientVars, connVars>>

(***************************************************************************)
(* The codec: Request and Response, dumped and loaded.                     *)
(***************************************************************************)
RequestRoundTrip ==
    /\ call.op = "idle"
    /\ \E r \in ValidRequests, fresh \in Uuids :
          call' = [op |-> "request_roundtrip", input |-> r,
                   wire |-> RequestDump(r),
                   out |-> RequestLoad(RequestDump(r), fresh)]
    /\ UNCHANGED <<methods, clientVars, connVars>>

ResponseRoundTrip ==
    /\ call.op = "idle"
    /\ \E r \in ValidResponses :
          call' = [op |-> "response_roundtrip", input |-> r,
                   wire |-> ResponseDump(r),
                   out |-> ResponseLoad(ResponseDump(r))]
    /\ UNCHANGED <<methods, clientVars, connVars>>

RequestLoadFrame ==
    /\ call.op = "idle"
    /\ \E data \in Frames, fresh \in Uuids :
          call' = [op |-> "request_load", input |-> data,
                   out |-> RequestLoad(data, fresh)]
    /\ UNCHANGED <<methods, clientVars, connVars>>

ResponseLoadFrame ==
    /\ call.op = "idle"
    /\ \E data \in ResponseFrames :
          call' = [op |-> "response_load", input |-> data,
                   out |-> ResponseLoad(data)]
    /\ UNCHANGED <<methods, clientVars, connVars>>

CodecNext ==
    \/ RequestRoundTrip
    \/ ResponseRoundTrip
    \/ RequestLoadFrame
    \/ ResponseLoadFrame
    \/ Done

SpecCodec == Init /\ [][CodecNext]_vars

(***************************************************************************)
(* The dispatcher: registration, then handle on raw frames.                *)
(***************************************************************************)
AddMethod ==
    /\ call.op = "idle"
    /\ \E method_name \in RegistryNames, func \in HandlerKinds :
          methods' = add_method(methods, method_name, func)
    /\ UNCHANGED <<call, clientVars, connVars>>

Handle ==
    /\ call.op = "idle"
    /\ \E message \in Frames, fresh \in Uuids :
          call' = [op |-> "handle", input |-> message]
                  @@ handle(methods, message, fresh)
    /\ UNCHANGED <<methods, clientVars, connVars>>

Next == AddMethod \/ Handle \/ Done

\* The requests a caller passes to send, and what uuid4() returns in send.
SendRequests ==
    {RequestInit(n, t, p, EmptyDict, f).val :
        n \in RegistryNames, t \in TraceIds \cup {NONE},
        p \in {EmptyDict, JObj(<<Pair("a", JStr(<<"x">>))>>)}, f \in Uuids}
SendUuids == {<<"uuid-2">>}

\* BaseClient.send for one caller at a time, with the server's side of the
\* exchange: send gives the request a new trace_id (line 51) and writes
\* request.dump(); the server's _process_connection hands the frame to
\* handle and writes the response's dump; send returns Response.load of it.
\* When handle raises nothing is written and send returns nothing.
SendExchange ==
    /\ call.op = "idle"
    /\ \E r \in SendRequests, fresh \in Uuids, sent_id \in SendUuids :
       \E request \in {[r EXCEPT !.trace_id = JStr(sent_id)]} :
       \E wire \in {RequestDump(request)} :
       \E served \in {handle(methods, wire, fresh)} :
       \E frame \in {IF served.out.ok THEN ResponseDump(served.out.val) ELSE <<>>} :
       \E out \in {IF served.out.ok THEN ResponseLoad(frame) ELSE NoResult} :
          call' = [op |-> "send", request |-> request, wire |-> wire,
                   decoded |-> served.loaded, served |-> served.out, out |-> out]
    /\ UNCHANGED <<methods, clientVars, connVars>>

SendNext == AddMethod \/ SendExchange \/ Done

SpecSend == Init /\ [][SendNext]_vars

(***************************************************************************)
(* The registry on its own: add_method (the method decorator calls it) and *)
(* include, with names in either case.                                     *)
(***************************************************************************)
AnyCaseNames == {<<"m">>, <<"M">>, <<"getUser">>}
IncludedRegistries ==
    {<<>>,
     add_method(<<>>, <<"m">>, "echo"),
     add_method(add_method(<<>>, <<"M">>, "raise_value_error"), <<"u">>, "echo")}

Register ==
    /\ call.op = "idle"
    /\ \E method_name \in AnyCaseNames, func \in HandlerKinds :
          /\ methods' = add_method(methods, method_name, func)
          /\ call' = [op |-> "add_method", method_name |-> method_name,
                      func |-> func, before |-> methods]
    /\ UNCHANGED <<clientVars, connVars>>

Include ==
    /\ call.op = "idle"
    /\ \E other \in IncludedRegistries :
          /\ methods' = include(methods, other)
          /\ call' = [op |-> "include", other |-> other, before |-> methods]
    /\ UNCHANGED <<clientVars, connVars>>

RegistryNext == Register \/ Include \/ Done

SpecRegistry == Init /\ [][RegistryNext]_vars

Spec == Init /\ [][Next]_vars

(***************************************************************************)
(* client.py: BaseClient.send, run by several callers on one connection.   *)
(* The callers are asyncio tasks: a step runs from one suspension point to *)
(* the next.  send suspends in locking_event.wait() while the event is     *)
(* clear, may suspend in writer.drain(), and suspends in reader.readuntil  *)
(* until a frame is there.                                                 *)
(*   pc: "idle"     outside send                                           *)
(*       "waiting"  suspended in locking_event.wait()                      *)
(*       "woken"    wait() has returned, the task has not run yet          *)
(*       "draining" request written, in writer.drain()                     *)
(*       "reading"  suspended in readuntil, registered as the waiter       *)
(*       "readable" data has arrived for the waiter, the task has not run  *)
(*       "done"     send has returned a Response                           *)
(*       "failed"   send has raised                                        *)
(***************************************************************************)
\* Lines 54-57 of send, after wait() has returned: set the event, write the
\* request, enter drain.
WriteRequest(c, seq) ==
    /\ locking_event' = TRUE
    /\ written' = Append(written, [caller |-> c, seq |-> seq])
    /\ pc' = [pc EXCEPT ![c] = "draining"]

\* send up to its first suspension: wait() returns at once when the event is
\* set, and suspends the caller otherwise.
StartSend(c) ==
    /\ pc[c] = "idle"
    /\ sends[c] < MaxSends
    /\ sends' = [sends EXCEPT ![c] = @ + 1]
    /\ IF locking_event
       THEN WriteRequest(c, sends[c] + 1)
       ELSE /\ pc' = [pc EXCEPT ![c] = "waiting"]
            /\ UNCHANGED <<locking_event, written>>
    /\ UNCHANGED <<reader_buffer, reader_waiter, result, serverVars>>

\* asyncio.Event.set() called on the public attribute locking_event by code
\* outside send: every caller suspended in wait() is woken.  send itself
\* sets the event only after wait() has returned.
ExternalSet ==
    /\ ~locking_event
    /\ locking_event' = TRUE
    /\ pc' = [c \in Callers |-> IF pc[c] = "waiting" THEN "woken" ELSE pc[c]]
    /\ UNCHANGED <<sends, written, reader_buffer, reader_waiter, result, serverVars>>

\* A woken caller runs: wait() returns True without looking at the event again.
ResumeSend(c) ==
    /\ pc[c] = "woken"
    /\ WriteRequest(c, sends[c])
    /\ UNCHANGED <<sends, reader_buffer, reader_waiter, result, serverVars>>

\* reader.readuntil(MESSAGE_SEPARATOR), then lines 60-62: with a frame in the
\* buffer it is taken, the event is cleared and send returns; with none the
\* caller becomes the reader's waiter, and readuntil raises RuntimeError when
\* another caller is the waiter already.
ReadUntil(c) ==
    IF reader_buffer # <<>>
    THEN /\ result' = [result EXCEPT ![c] = Head(reader_buffer)]
         /\ reader_buffer' = Tail(reader_buffer)
         /\ locking_event' = FALSE
         /\ pc' = [pc EXCEPT ![c] = "done"]
         /\ UNCHANGED reader_waiter
    ELSE IF reader_waiter # 0
    THEN /\ pc' = [pc EXCEPT ![c] = "failed"]
         /\ UNCHANGED <<result, reader_buffer, locking_event, reader_waiter>>
    ELSE /\ pc' = [pc EXCEPT ![c] = "reading"]
         /\ reader_waiter' = c
         /\ UNCHANGED <<result, reader_buffer, locking_event>>

\* drain() returns and the caller calls readuntil.
Drained(c) ==
    /\ pc[c] = "draining"
    /\ ReadUntil(c)
    /\ UNCHANGED <<sends, written, serverVars>>

\* The server answers the oldest unanswered request; the frame reaches the
\* reader's buffer and the waiter, if any, is woken.
ServerAnswer ==
    /\ written # <<>>
    /\ reader_buffer' = Append(reader_buffer, Head(written))
    /\ written' = Tail(written)
    /\ reader_waiter' = 0
    /\ pc' = [c \in Callers |-> IF c = reader_waiter THEN "readable" ELSE pc[c]]
    /\ UNCHANGED <<locking_event, sends, result, serverVars>>

\* The woken waiter runs: readuntil looks at the buffer again.
ResumeRead(c) ==
    /\ pc[c] = "readable"
    /\ ReadUntil(c)
    /\ UNCHANGED <<sends, written, serverVars>>

\* The caller has its Response (or its exception) and may call send again.
Finish(c) ==
    /\ pc[c] \in {"done", "failed"}
    /\ pc' = [pc EXCEPT ![c] = "idle"]
    /\ UNCHANGED <<locking_event, sends, written, reader_buffer, reader_waiter,
                   result, serverVars>>

ClientNext ==
    \/ \E c \in Callers : StartSend(c)
    \/ ExternalSet
    \/ \E c \in Callers : ResumeSend(c)
    \/ \E c \in Callers : Drained(c)
    \/ ServerAnswer
    \/ \E c \in Callers : ResumeRead(c)
    \/ \E c \in Callers : Finish(c)

SpecClient == Init /\ [][ClientNext]_vars

\* The same client under the scheduling the code runs with.  The asyncio
\* event loop runs every task that is ready, so a caller whose wait(), drain()
\* or readuntil() can return does run; the server answers every request it
\* has been sent.  Nothing obliges a caller to call send, to take its result
\* or to call send again, and nothing in the package sets locking_event from
\* outside send, so StartSend, Finish and ExternalSet carry no fairness.
ClientFairness ==
    /\ \A c \in Callers : WF_vars(ResumeSend(c))
    /\ \A c \in Callers : WF_vars(Drained(c))
    /\ \A c \in Callers : WF_vars(ResumeRead(c))
    /\ WF_vars(ServerAnswer)

SpecClientLive == Init /\ [][ClientNext]_vars /\ ClientFairness

(***************************************************************************)
(* server.py: one _handle_connection task per connection.  A step runs     *)
(* from one suspension point to the next: the task suspends in             *)
(* reader.readuntil until a frame, EOF or a connection error is there, and *)
(* in writer.drain() after each write.                                     *)
(*   srv_pc: "none"           no connection from this address yet          *)
(*           "reading"        in _process_connection, at readuntil         *)
(*           "draining"       response written, in drain (line 96)         *)
(*           "draining_error" size error written, in drain (lines 150-155) *)
(*           "ended"          the loop has broken, the task has returned   *)
(*           "crashed"        an exception has left _handle_connection     *)
(*   link:   "none", "up",                                                 *)
(*           "eof"      the peer has closed its side (feed_eof)            *)
(*           "broken"   the connection is lost, the reader holds the error *)
(*           "closed"   the server closed the writer, the peer being up    *)
(*           "finished" the server closed the writer after the peer's EOF  *)
(***************************************************************************)
\* The handlers the server is constructed with: m answers, u raises.
ServerMethods ==
    add_method(add_method(<<>>, <<"m">>, "echo"), <<"u">>, "raise_value_error")

\* Server.__init__: a message_handler with its methods, no users.
ServerInit ==
    /\ methods = ServerMethods
    /\ InitRest

\* What the peers send: requests for the methods m and u and for a method
\* that is not registered, a frame without '{', bytes that are not UTF-8,
\* and a request longer than max_message_size.
SmallRequest(method_name) ==
    RequestDump(RequestInit(method_name, JStr(<<"t1">>), EmptyDict, EmptyDict,
                            <<"uuid-1">>).val)
BigRequest ==
    RequestDump(RequestInit(<<"m">>, JStr(<<"t1">>),
                            JObj(<<Pair("a", JStr(<<"x">>)), Pair("b", JStr(<<"y">>)),
                                   Pair("c", JStr(<<"z">>))>>),
                            EmptyDict, <<"uuid-1">>).val)
ServerFrames ==
    {SmallRequest(<<"m">>), SmallRequest(<<"u">>), SmallRequest(<<"x">>),
     <<"m">>, <<BAD_BYTE>>, BigRequest}

\* StreamReader.readuntil: LimitOverrunError when the separator is found
\* beyond the limit; the chunk stays in the buffer.
LimitOverrun(frame) == Len(frame) > max_message_size

\* writer.close() as the transport sees it.
CloseLink(l) ==
    IF l = "up" THEN "closed" ELSE IF l = "eof" THEN "finished" ELSE l

\* self.logger.<level>(...) about connection a: the record keeps the level,
\* what the message is about and how many responses had been written.
LogRecord(a, level, about) ==
    [level |-> level, about |-> about, at |-> Len(outbound[a])]
Logged(a, records) == log' = [log EXCEPT ![a] = @ \o records]

\* _make_user and the entry into the loop of _handle_connection.
Connect(a) ==
    /\ srv_pc[a] = "none"
    /\ users' = users \cup {a}
    /\ srv_pc' = [srv_pc EXCEPT ![a] = "reading"]
    /\ link' = [link EXCEPT ![a] = "up"]
    /\ Logged(a, <<LogRecord(a, DEBUG, "connected")>>)
    /\ UNCHANGED <<inbound, outbound, received, methods, call, clientVars>>

\* _user_disconnected, and `then` when it returns: users.pop raises KeyError
\* for an address that is not in users, and the exception leaves the task.
UserDisconnected(a, then) ==
    /\ Logged(a, <<LogRecord(a, DEBUG, "disconnected")>>)
    /\ link' = [link EXCEPT ![a] = CloseLink(@)]
    /\ IF a \in users
       THEN /\ users' = users \ {a}
            /\ srv_pc' = [srv_pc EXCEPT ![a] = then]
       ELSE /\ srv_pc' = [srv_pc EXCEPT ![a] = "crashed"]
            /\ UNCHANGED users

\* An inverted test: the response is skipped for the users the server has.
SendResponseSkipsKnownUser(known, address) == address \in known

\* _send_response, line 91: nothing is written for an address not in users.
SendResponseSkips(known, address) == address \notin known

\* _send_response up to drain: response.dump() is written unless the user is
\* gone; outbound records the response and the frame it answers.  A frame
\* written to a lost connection reaches nobody.
SendResponse(a, seq, response, draining, skipped) ==
    IF SendResponseSkips(users, a)
    THEN /\ srv_pc' = [srv_pc EXCEPT ![a] = skipped]
         /\ UNCHANGED outbound
    ELSE /\ srv_pc' = [srv_pc EXCEPT ![a] = draining]
         /\ outbound' =
               IF link[a] = "broken" THEN outbound
               ELSE [outbound EXCEPT ![a] =
                        Append(@, [seq |-> seq, response |-> response])]

\* One turn of the loop of _handle_connection up to its next suspension:
\* readuntil returns or raises, handle runs, the response is written.
ProcessConnection(a) ==
    /\ srv_pc[a] = "reading"
    /\ IF link[a] = "broken"
       THEN \* readuntil raises the reader's exception, a ConnectionError
            /\ UserDisconnected(a, "ended")
            /\ UNCHANGED <<inbound, outbound, received>>
       ELSE IF inbound[a] # <<>>
       THEN IF LimitOverrun(Head(inbound[a]))
            THEN \* lines 148-155: the debug message, _send_error up to its drain
                 /\ Logged(a, <<LogRecord(a, DEBUG, "max_message_size")>>)
                 /\ SendResponse(a, 0,
                       response_from_error(
                           MaxMessageSizeReceivedError(max_message_size), <<>>).val,
                       "draining_error", "draining_error")
                 /\ UNCHANGED <<users, link, inbound, received>>
            ELSE \E fresh \in Uuids :
                 \E response \in {handle(methods, Head(inbound[a]), fresh).out} :
                     /\ inbound' = [inbound EXCEPT ![a] = Tail(@)]
                     /\ received' = [received EXCEPT ![a] = Append(@, Head(inbound[a]))]
                     /\ IF response.ok
                        THEN SendResponse(a, Len(received[a]) + 1, response.val,
                                          "draining", "reading")
                        ELSE \* the exception is none of those the loop catches
                             /\ srv_pc' = [srv_pc EXCEPT ![a] = "crashed"]
                             /\ UNCHANGED outbound
                     /\ UNCHANGED <<users, link, log>>
       ELSE \* EOF with no complete frame: IncompleteReadError
            /\ link[a] = "eof"
            /\ UserDisconnected(a, "ended")
            /\ UNCHANGED <<inbound, outbound, received>>
    /\ UNCHANGED <<methods, call, clientVars>>

\* drain returns, or raises on a lost connection: BrokenPipeError is caught
\* in _send_response (lines 97-99), any other ConnectionError by the loop
\* (lines 141-146).
ServerDrained(a) ==
    /\ srv_pc[a] = "draining"
    /\ IF link[a] = "broken"
       THEN \/ UserDisconnected(a, "reading")
            \/ UserDisconnected(a, "ended")
       ELSE /\ srv_pc' = [srv_pc EXCEPT ![a] = "reading"]
            /\ UNCHANGED <<users, link, log>>
    /\ UNCHANGED <<inbound, outbound, received, methods, call, clientVars>>

\* The drain of _send_error, then lines 156-157.  On a lost connection
\* BrokenPipeError makes _send_response disconnect the user and line 156
\* disconnect it again; any other error leaves the except clause it is
\* raised in.
ErrorDrained(a) ==
    /\ srv_pc[a] = "draining_error"
    /\ IF link[a] = "broken"
       THEN /\ srv_pc' = [srv_pc EXCEPT ![a] = "crashed"]
            /\ \/ /\ users' = users \ {a}
                  /\ Logged(a, <<LogRecord(a, DEBUG, "disconnected"),
                                 LogRecord(a, DEBUG, "disconnected")>>)
               \/ UNCHANGED <<users, log>>
            /\ UNCHANGED link
       ELSE UserDisconnected(a, "ended")
    /\ UNCHANGED <<inbound, outbound, received, methods, call, clientVars>>

\* The frames the peers have sent on the connections of S.
RECURSIVE FramesSent(_)
FramesSent(S) ==
    IF S = {} THEN 0
    ELSE LET a == CHOOSE x \in S : TRUE
         IN  Len(received[a]) + Len(inbound[a]) + FramesSent(S \ {a})

\* A peer sends a frame and its separator, while the connection's task is
\* in its loop.
PeerSend(a) ==
    /\ link[a] = "up"
    /\ srv_pc[a] \in {"reading", "draining"}
    /\ FramesSent(Addresses) < MaxPeerFrames
    /\ \E frame \in ServerFrames :
          inbound' = [inbound EXCEPT ![a] = Append(@, frame)]
    /\ UNCHANGED <<users, srv_pc, link, outbound, received, log, methods, call, clientVars>>

\* The peer closes its side: the reader is fed EOF.
PeerClose(a) ==
    /\ link[a] = "up"
    /\ link' = [link EXCEPT ![a] = "eof"]
    /\ UNCHANGED <<users, srv_pc, inbound, outbound, received, log, methods, call, clientVars>>

\* The connection is lost: the reader holds the exception.
PeerLost(a) ==
    /\ link[a] \in {"up", "eof"}
    /\ link' = [link EXCEPT ![a] = "broken"]
    /\ UNCHANGED <<users, srv_pc, inbound, outbound, received, log, methods, call, clientVars>>

ServerNext ==
    \/ \E a \in Addresses : Connect(a)
    \/ \E a \in Addresses : ProcessConnection(a)
    \/ \E a \in Addresses : ServerDrained(a)
    \/ \E a \in Addresses : ErrorDrained(a)
    \/ \E a \in Addresses : PeerSend(a)
    \/ \E a \in Addresses : PeerClose(a)
    \/ \E a \in Addresses : PeerLost(a)

SpecServer == ServerInit /\ [][ServerNext]_vars

(***************************************************************************)
(* The annotation compiler (rpc_annotation.py).  The names of enums,       *)
(* objects and methods are sequences of single characters, because the     *)
(* compiler looks at their case; the tags of the primitives and the keys   *)
(* of fields are tokens.  A field spec is a string <<"str", name>> or a    *)
(* list <<"list", items>>.  Each section of a schema is a dict, or None    *)
(* when the schema leaves it out.                                          *)
(***************************************************************************)
UpperChars == {"C", "E", "L", "N", "Z"}
LowerChars == {"e", "g", "i", "o", "t", "z"}
DigitChars == {"1"}

\* A test that looks at the first character only.
islower_first_only(s) == Len(s) > 0 /\ s[1] \in LowerChars

\* str.islower(): at least one cased character, and no uppercase one.
islower(s) ==
    /\ \E i \in 1..Len(s) : s[i] \in UpperChars \cup LowerChars
    /\ \A i \in 1..Len(s) : s[i] \notin UpperChars

\* smart_rpc.utils.check_camel_case is not among the sources.  From the
\* specification: the name is in UpperCamelCase, that is, it starts with an
\* uppercase letter and holds letters and digits only.
check_camel_case(s) ==
    /\ Len(s) > 0
    /\ s[1] \in UpperChars
    /\ \A i \in 1..Len(s) : s[i] \in UpperChars \cup LowerChars \cup DigitChars

AnnotationValidationError(details) ==
    FatalError("AnnotationValidationError", <<"AnnotationValidation">>, details)

AnnotationUnknownFieldTypeError(field_type) ==
    FatalError("AnnotationUnknownFieldTypeError", <<"AnnotationUnknownFieldType">>,
              JObj(<< <<(<<"unknown_field_type">>), JStr(field_type)>> >>))

AnnotationCaseError(field, upper) ==
    FatalError("AnnotationCaseError", <<"AnnotationValidation">>,
              JObj(<< <<field,
                        JStr(IF upper THEN <<"must be in camelCase or UpperCase">>
                                      ELSE <<"must be in lower_case">>)>> >>))

AnnotationNoMethodError ==
    FatalError("AnnotationNoMethodError", <<"AnnotationNoMethod">>,
              JObj(<< <<(<<"no_method">>),
                        JStr(<<"at least one must be declared in annotation file">>)>> >>))

AnnotationEnumNotFoundError(field) ==
    FatalError("AnnotationEnumNotFoundError", <<"AnnotationValidation">>,
              JObj(<< <<(<<"not_found">>), JStr(field \o <<" enum">>)>> >>))

AnnotationObjectNotFoundError(field) ==
    FatalError("AnnotationObjectNotFoundError", <<"AnnotationValidation">>,
              JObj(<< <<(<<"not_found">>), JStr(field \o <<" object">>)>> >>))

UnknownSignatureError(field_value) ==
    AnnotationValidationError(JObj(<< <<(<<"unknown_signature">>), JStr(field_value)>> >>))

RequestOrResponseMissingError(method_key) ==
    AnnotationValidationError(
        JObj(<< <<(<<"request_or_response_object">>),
                  JStr(<<"not found in ">> \o method_key \o <<" method">>)>> >>))

\* Field specs, and what they are converted to: a Python type, None, a
\* StrEnum class, a list, or one of the dicts of self.objects (the dict
\* itself, not a copy: it is identified by its key).
TList(items) == <<"list", items>>
IsList(v) == v[1] = "list"
PythonType(type_name) == <<"type", <<type_name>>>>
StrEnum(enum_key, raw_enum) == <<"StrEnum", <<enum_key, raw_enum>>>>
ObjectDict(object_key) == <<"dict", object_key>>

FIELD_TYPE_PRIMITIVES ==
    {<<"int">>, <<"float">>, <<"boolean">>, <<"string">>,
     <<"date">>, <<"datetime">>, <<"uuid">>, <<"null">>}

FIELD_TYPE_PRIMITIVES_TO_PYTHON_TYPES ==
    (<<"int">> :> PythonType("int")) @@ (<<"float">> :> PythonType("float")) @@
    (<<"boolean">> :> PythonType("bool")) @@ (<<"string">> :> PythonType("str")) @@
    (<<"date">> :> PythonType("date")) @@ (<<"datetime">> :> PythonType("datetime")) @@
    (<<"uuid">> :> PythonType("UUID")) @@ (<<"null">> :> NONE)

field_type_to_python_type(field_type) ==
    IF field_type \notin DOMAIN FIELD_TYPE_PRIMITIVES_TO_PYTHON_TYPES
    THEN Raise(AnnotationUnknownFieldTypeError(field_type))
    ELSE Return(FIELD_TYPE_PRIMITIVES_TO_PYTHON_TYPES[field_type])

\* RPCAnnotationDTO._convert_field_value, with self.enums and self.objects
\* as they are when it is called.  ConvertItems is its list comprehension
\* from item i on: the first item that raises ends it.
RECURSIVE convert_field_value(_, _, _)
RECURSIVE ConvertItems(_, _, _, _)
convert_field_value(enums, objects, field_value) ==
    IF IsList(field_value)
    THEN LET items == ConvertItems(enums, objects, field_value[2], 1)
         IN  IF items.ok THEN Return(TList(items.val)) ELSE items
    ELSE IF field_value[2] \in FIELD_TYPE_PRIMITIVES
    THEN field_type_to_python_type(field_value[2])
    ELSE IF DictHas(enums, field_value[2])
    THEN Return(DictAt(enums, field_value[2]))
    ELSE IF DictHas(objects, field_value[2])
    THEN Return(ObjectDict(field_value[2]))
    ELSE Raise(UnknownSignatureError(field_value[2]))

ConvertItems(enums, objects, items, i) ==
    IF i > Len(items) THEN Return(<<>>)
    ELSE LET value == convert_field_value(enums, objects, items[i])
         IN  IF ~value.ok THEN value
             ELSE LET rest == ConvertItems(enums, objects, items, i + 1)
                  IN  IF ~rest.ok THEN rest
                      ELSE Return(<<value.val>> \o rest.val)

\* for key, value in raw.items(): target[key] = _convert_field_value(value),
\* from item j on, target being acc so far.
RECURSIVE ConvertFields(_, _, _, _, _)
ConvertFields(enums, objects, raw, j, acc) ==
    IF j > Len(raw) THEN Return(acc)
    ELSE LET value == convert_field_value(enums, objects, raw[j][2])
         IN  IF ~value.ok THEN value
             ELSE ConvertFields(enums, objects, raw, j + 1,
                                DictSet(acc, raw[j][1], value.val))

\* The loop of _make_enums from item i on, self.enums being enums so far.
RECURSIVE MakeEnumsFrom(_, _, _)
MakeEnumsFrom(raw, i, enums) ==
    IF i > Len(raw) THEN Return(enums)
    ELSE IF ~check_camel_case(raw[i][1])
    THEN Raise(AnnotationCaseError(<<"enums.">> \o raw[i][1], TRUE))
    ELSE MakeEnumsFrom(raw, i + 1,
                       DictSet(enums, raw[i][1], StrEnum(raw[i][1], raw[i][2])))

make_enums(schema) ==
    IF ~Truthy(schema.enums) THEN Return(EmptyDict)
    ELSE MakeEnumsFrom(schema.enums[2], 1, EmptyDict)

\* The loop of _make_objects from item i on.  self.objects[object_key] = {}
\* comes before the fields are converted: the key is in self.objects while
\* they are.
RECURSIVE MakeObjectsFrom(_, _, _, _)
MakeObjectsFrom(raw, i, enums, objects) ==
    IF i > Len(raw) THEN Return(objects)
    ELSE IF ~check_camel_case(raw[i][1])
    THEN Raise(AnnotationCaseError(<<"objects.">> \o raw[i][1], TRUE))
    ELSE LET started == DictSet(objects, raw[i][1], EmptyDict)
             fields == ConvertFields(enums, started, raw[i][2][2], 1, EmptyDict)
         IN  IF ~fields.ok THEN fields
             ELSE MakeObjectsFrom(raw, i + 1, enums,
                                  DictSet(started, raw[i][1], fields.val))

\* A compilation that declares every object before it converts any field.
make_objects_declared_first(schema, enums) ==
    IF ~Truthy(schema.objects) THEN Return(EmptyDict)
    ELSE MakeObjectsFrom(schema.objects[2], 1, enums,
                         JObj([i \in 1..Len(schema.objects[2]) |->
                                  <<schema.objects[2][i][1], EmptyDict>>]))

make_objects(schema, enums) ==
    IF ~Truthy(schema.objects) THEN Return(EmptyDict)
    ELSE MakeObjectsFrom(schema.objects[2], 1, enums, EmptyDict)

RPCAnnotationMethod(request, response) == [request |-> request, response |-> response]

\* The loop of _make_methods from item i on.
RECURSIVE MakeMethodsFrom(_, _, _, _, _)
MakeMethodsFrom(raw, i, enums, objects, compiled) ==
    IF i > Len(raw) THEN Return(compiled)
    ELSE IF ~islower(raw[i][1])
    THEN Raise(AnnotationCaseError(<<"methods.">> \o raw[i][1], FALSE))
    ELSE IF ~DictHas(raw[i][2], <<"request">>) \/ ~DictHas(raw[i][2], <<"response">>)
    THEN Raise(RequestOrResponseMissingError(raw[i][1]))
    ELSE LET request == ConvertFields(enums, objects,
                                      DictAt(raw[i][2], <<"request">>)[2], 1, EmptyDict)
         IN  IF ~request.ok THEN request
             ELSE LET response == ConvertFields(enums, objects,
                                                DictAt(raw[i][2], <<"response">>)[2],
                                                1, EmptyDict)
                  IN  IF ~response.ok THEN response
                      ELSE MakeMethodsFrom(raw, i + 1, enums, objects,
                               DictSet(compiled, raw[i][1],
                                       RPCAnnotationMethod(request.val, response.val)))

\* A compilation that accepts a schema without methods.
make_methods_or_none(schema, enums, objects) ==
    IF ~Truthy(schema.methods) THEN Return(EmptyDict)
    ELSE MakeMethodsFrom(schema.methods[2], 1, enums, objects, EmptyDict)

make_methods(schema, enums, objects) ==
    IF ~Truthy(schema.methods) THEN Raise(AnnotationNoMethodError)
    ELSE MakeMethodsFrom(schema.methods[2], 1, enums, objects, EmptyDict)

\* RPCAnnotationDTO(annotation_schema): __init__ and _make.  The value is the
\* DTO's enums, objects and methods; an exception leaves no DTO.
RPCAnnotationDTO(schema) ==
    LET enums == make_enums(schema)
    IN  IF ~enums.ok THEN enums
        ELSE LET objects == make_objects(schema, enums.val)
             IN  IF ~objects.ok THEN objects
                 ELSE LET compiled == make_methods(schema, enums.val, objects.val)
                      IN  IF ~compiled.ok THEN compiled
                          ELSE Return([enums |-> enums.val, objects |-> objects.val,
                                       methods |-> compiled.val])

\* The schemas compiled: every section missing, empty or filled; names in
\* and out of the required case; field specs that are primitives, declared
\* and undeclared names, the object's own name, and lists of one and of
\* several items nested up to depth two.
Co == <<"C", "o">>
No == <<"N", "o">>
Li == <<"L", "i">>
Zz == <<"Z", "z">>
EnumNames == {Co, <<"o", "C">>}
ObjectNames == {No, Li, <<"t", "o">>, <<"N", "_", "o">>}
MethodNames ==
    {<<"g", "e", "t">>, <<"g", "_", "1">>, <<"g", "E", "t">>, <<"E", "t">>, <<"1">>}

RawEnum == JObj(<< <<(<<"RED">>), JStr(<<"red">>)>> >>)
Fields(key, spec) == JObj(<< <<(<<key>>), spec>> >>)

FieldSpecs ==
    {JStr(<<"int">>), JStr(Co), JStr(No), JStr(Li), JStr(Zz),
     TList(<<JStr(<<"int">>)>>),
     TList(<<JStr(<<"int">>), JStr(<<"null">>)>>),
     TList(<<TList(<<JStr(Zz)>>)>>),
     TList(<<JStr(<<"string">>), TList(<<JStr(Co), JStr(Li)>>)>>)}

EnumsSections ==
    {NONE, EmptyDict}
    \cup {JObj(<< <<n, RawEnum>> >>) : n \in EnumNames}
    \cup {JObj(<< <<Co, RawEnum>>, <<(<<"o", "C">>), RawEnum>> >>)}

ObjectsSections ==
    {NONE}
    \cup {JObj(<< <<No, Fields("f", t)>> >>) : t \in FieldSpecs}
    \cup {JObj(<< <<Li, Fields("g", JStr(<<"int">>))>>, <<No, Fields("f", t)>> >>) :
            t \in FieldSpecs}
    \cup {JObj(<< <<No, Fields("f", t)>>, <<Li, Fields("g", JStr(<<"int">>))>> >>) :
            t \in FieldSpecs}
    \cup {JObj(<< <<n, Fields("f", JStr(<<"int">>))>> >>) : n \in ObjectNames}
    \cup {JObj(<< <<No, Fields("f", JStr(Zz))>>,
                  <<(<<"t", "o">>), Fields("g", JStr(<<"int">>))>> >>)}

RawMethod(request, response) ==
    JObj(<< <<(<<"request">>), Fields("a", request)>>,
            <<(<<"response">>), Fields("b", response)>> >>)

MethodsSections ==
    {NONE, EmptyDict}
    \cup {JObj(<< <<(<<"g", "e", "t">>), RawMethod(t, JStr(<<"int">>))>> >>) :
            t \in FieldSpecs}
    \cup {JObj(<< <<(<<"g", "e", "t">>), RawMethod(JStr(<<"int">>), t)>> >>) :
            t \in FieldSpecs}
    \cup {JObj(<< <<n, RawMethod(JStr(<<"int">>), JStr(<<"int">>))>> >>) :
            n \in MethodNames}
    \cup {JObj(<< <<(<<"g", "e", "t">>), RawMethod(JStr(<<"int">>), JStr(<<"int">>))>>,
                  <<(<<"g", "E", "t">>), RawMethod(JStr(<<"int">>), JStr(<<"int">>))>> >>),
          JObj(<< <<(<<"g", "e", "t">>),
                    JObj(<< <<(<<"request">>), Fields("a", JStr(<<"int">>))>> >>)>> >>),
          JObj(<< <<(<<"g", "E", "t">>),
                    JObj(<< <<(<<"response">>), Fields("b", JStr(<<"int">>))>> >>)>> >>)}

Schemas ==
    {[enums |-> e, objects |-> o, methods |-> m] :
        e \in EnumsSections, o \in ObjectsSections, m \in MethodsSections}

\* A compilation that takes the objects out of the schema it is given.
SchemaConsumed(schema) == [schema EXCEPT !.objects = NONE]

\* The caller's schema after RPCAnnotationDTO(schema): __init__ keeps the
\* object as self.schema, and _make reads it through .items() and the in
\* operator only; nothing assigns to it or into its dicts.
SchemaLeft(schema) == schema

\* dto = RPCAnnotationDTO(schema); left is the caller's schema afterwards.
Compile ==
    /\ call.op = "idle"
    /\ \E schema \in Schemas :
       \E out \in {RPCAnnotationDTO(schema)} :
          call' = [op |-> "compile", schema |-> schema, out |-> out,
                   left |-> SchemaLeft(schema)]
    /\ UNCHANGED <<methods, clientVars, connVars>>

\* The caller compiles the same schema object once more.
CompileAgain ==
    /\ call.op = "compile"
    /\ \E out \in {RPCAnnotationDTO(call.left)} :
          call' = [op |-> "compile_again", schema |-> call.schema,
                   first |-> call.out, out |-> out,
                   left |-> SchemaLeft(call.left)]
    /\ UNCHANGED <<methods, clientVars, connVars>>

AnnotationNext == Compile \/ CompileAgain \/ Done

SpecAnnotation == Init /\ [][AnnotationNext]_vars

(***************************************************************************)
(* errors.py: the errors as their constructors make them, and              *)
(* handle_error applied to each.                                           *)
(***************************************************************************)
ErrorDetails ==
    Payloads
    \cup {FromBaseExceptionDetails(e) :
            e \in {UnicodeDecodeError, JSONDecodeError, PydanticValidationError,
                   ConnectionRefusedError}}
    \cup {InvalidMessageFormatDetails}

ErrorPaths == {<<"enums.">> \o n : n \in EnumNames} \cup {<<"methods.">> \o n : n \in MethodNames}

ErrorInstances ==
    {ValidationError(d) : d \in ErrorDetails}
    \cup {InvalidMessageFormatError}
    \cup {UnknownMethodError(n) : n \in Names}
    \cup {MethodInternalError(d) : d \in ErrorDetails}
    \cup {MaxMessageSizeReceivedError(n) : n \in {0, max_message_size}}
    \cup {RequestTimeoutError(n) : n \in {0, 1}}
    \cup {ServerFatalError(d) : d \in ErrorDetails}
    \cup {ClientFatalError(d) : d \in ErrorDetails}
    \cup {AnnotationValidationError(d) : d \in ErrorDetails}
    \cup {AnnotationUnknownFieldTypeError(t) : t \in {Zz, <<"int">>}}
    \cup {AnnotationCaseError(p, u) : p \in ErrorPaths, u \in BOOLEAN}
    \cup {AnnotationEnumNotFoundError(n) : n \in EnumNames}
    \cup {AnnotationObjectNotFoundError(n) : n \in ObjectNames}
    \cup {AnnotationNoMethodError}
    \cup {UnknownSignatureError(n) : n \in {Zz, Li}}
    \cup {RequestOrResponseMissingError(n) : n \in MethodNames}

LogLevels == {DEBUG, INFO, WARNING, ERROR, CRITICAL}

HandleError ==
    /\ call.op = "idle"
    /\ \E error \in ErrorInstances, log_level \in LogLevels, exit_if_fatal \in BOOLEAN :
       \E out \in {handle_error(error, log_level, exit_if_fatal)} :
          call' = [op |-> "handle_error", error |-> error, log_level |-> log_level,
                   exit_if_fatal |-> exit_if_fatal, out |-> out]
    /\ UNCHANGED <<methods, clientVars, connVars>>

ErrorsNext == HandleError \/ Done

SpecErrors == Init /\ [][ErrorsNext]_vars

(***************************************************************************)
(* Properties                                                              *)
(***************************************************************************)
\* Some mapping inside v (v itself or a nested one) maps key k to x.
RECURSIVE Carries(_, _, _)
Carries(v, k, x) ==
    /\ IsObj(v)
    /\ \/ DictGet(v, k) = x
       \/ \E i \in 1..Len(v[2]) : Carries(v[2][i][2], k, x)

HasBrace(v) == LBRACE \in {Dumps(v)[i] : i \in 2..Len(Dumps(v))}

\* C1: for any valid Request r, Request.load(r.dump()) yields a Request with
\* the same method_name, trace_id, payload and headers as r.
C1_RequestRoundTrip ==
    call.op = "request_roundtrip" =>
        /\ call.out.ok
        /\ call.out.val.method_name = call.input.method_name
        /\ call.out.val.trace_id = call.input.trace_id
        /\ JsonEq(call.out.val.payload, call.input.payload)
        /\ JsonEq(call.out.val.headers, call.input.headers)

\* The round trip of a Request whose payload holds no '{' besides its own.
RequestRoundTripFlat ==
    (call.op = "request_roundtrip" /\ ~HasBrace(call.input.payload)) =>
        /\ call.out.ok
        /\ call.out.val.method_name = call.input.method_name
        /\ call.out.val.trace_id = call.input.trace_id
        /\ JsonEq(call.out.val.payload, call.input.payload)
        /\ JsonEq(call.out.val.headers, call.input.headers)

\* C2: for any valid Response r, Response.load(r.dump()) yields a Response
\* with the same method_name, trace_id, success, payload and headers as r.
C2_ResponseRoundTrip ==
    call.op = "response_roundtrip" =>
        /\ call.out.ok
        /\ call.out.val.method_name = call.input.method_name
        /\ call.out.val.trace_id = call.input.trace_id
        /\ call.out.val.success = call.input.success
        /\ JsonEq(call.out.val.payload, call.input.payload)
        /\ JsonEq(call.out.val.headers, call.input.headers)

\* The round trip of a Response whose payload holds no '{' besides its own
\* and whose method name holds no ':'.
ResponseRoundTripFlat ==
    (/\ call.op = "response_roundtrip"
     /\ ~HasBrace(call.input.payload)
     /\ Find(call.input.method_name, COLON, 0) = -1) =>
        /\ call.out.ok
        /\ call.out.val.method_name = call.input.method_name
        /\ call.out.val.trace_id = call.input.trace_id
        /\ call.out.val.success = call.input.success
        /\ JsonEq(call.out.val.payload, call.input.payload)
        /\ JsonEq(call.out.val.headers, call.input.headers)

HandlerFailed == call.op = "handle" /\ call.invoked /\ ~call.handler_out.ok

\* C3: whenever the invoked handler raises, whatever the exception, handle
\* returns a Response and raises nothing.
C3_HandlerFailureContained == HandlerFailed => call.out.ok

C3_Witness ==
    /\ HandlerFailed
    /\ call.handler_out.err.kind = "BaseException"
    /\ call.out.ok
    /\ ~call.out.val.success

\* C4: when a registered handler fails, the Response of handle has
\* success = false, error_code "MethodInternal", details holding the
\* failure's class name and message, and the method_name and trace_id of
\* the decoded request.
C4_HandlerFailureResponse ==
    HandlerFailed =>
        /\ call.out.ok
        /\ ~call.out.val.success
        /\ DictGet(call.out.val.payload, <<"error_code">>) = JStr(<<"MethodInternal">>)
        /\ Carries(call.out.val.payload, <<"exception">>,
                   JStr(call.handler_out.err.name))
        /\ Carries(call.out.val.payload, <<"exception_message">>,
                   JStr(call.handler_out.err.message))
        /\ call.out.val.method_name = call.loaded.val.method_name
        /\ call.out.val.trace_id = call.loaded.val.trace_id

UnknownMethodCall ==
    /\ call.op = "handle"
    /\ call.loaded.ok
    /\ call.loaded.val.method_name \notin DOMAIN methods

\* C5: a well-formed frame whose method name is not registered gets a
\* Response with success = false, error_code "UnknownMethod" in the payload,
\* and a details mapping that carries the requested method name.
C5_UnknownMethod ==
    UnknownMethodCall =>
        /\ call.out.ok
        /\ ~call.out.val.success
        /\ DictGet(call.out.val.payload, <<"error_code">>) = JStr(<<"UnknownMethod">>)
        /\ Carries(DictGet(call.out.val.payload, <<"details">>), <<"method">>,
                   JStr(call.loaded.val.method_name))
        /\ ~call.invoked

C5_Witness ==
    /\ UnknownMethodCall
    /\ DOMAIN methods # {}
    /\ call.out.ok
    /\ DictGet(call.out.val.payload, <<"error_code">>) = JStr(<<"UnknownMethod">>)

\* C6: the UnknownMethod Response carries the trace_id of the decoded
\* request, not the reserved zero value.
C6_UnknownMethodTraceId ==
    UnknownMethodCall =>
        /\ call.out.ok
        /\ call.out.val.trace_id = call.loaded.val.trace_id
        /\ call.out.val.trace_id # JStr(ZERO_TRACE_ID)

DecodeFailed ==
    call.op = "handle" /\ ~call.loaded.ok /\ IsValidationError(call.loaded.err)

\* C7: when decoding the raw frame fails with a validation error, handle
\* returns a Response with success = false, the zero trace_id, and the
\* method_name "__error" if the error's severity is error or fatal and
\* "__warning" otherwise; no handler is invoked.
C7_DecodeFailure ==
    DecodeFailed =>
        /\ call.out.ok
        /\ ~call.out.val.success
        /\ call.out.val.trace_id = JStr(ZERO_TRACE_ID)
        /\ call.out.val.method_name =
              (IF call.loaded.err.log_level >= ERROR
               THEN <<"__error">> ELSE <<"__warning">>)
        /\ ~call.invoked

C7_Witness ==
    /\ DecodeFailed
    /\ call.out.ok
    /\ call.out.val.method_name = <<"__warning">>
    /\ call.out.val.trace_id = JStr(ZERO_TRACE_ID)

\* C8: for every raw frame that is not a well-formed request, bytes that
\* are not UTF-8 included, handle returns a Response with a structured
\* error payload and an error_code; it raises nothing.
C8_MalformedFrameAnswered ==
    (call.op = "handle" /\ ~call.loaded.ok) =>
        /\ call.out.ok
        /\ ~call.out.val.success
        /\ IsStr(DictGet(call.out.val.payload, <<"error_code">>))
        /\ IsObj(DictGet(call.out.val.payload, <<"details">>))

NumBraces(s) == Cardinality({i \in 1..Len(s) : s[i] = LBRACE})

\* The frames C9 is about: text with no '{', with one '{' only, or
\* starting with '{'.
BadlyFramed(s) == NumBraces(s) <= 1 \/ s[1] = LBRACE

InFlight == {c \in Callers : pc[c] \in {"draining", "reading", "readable"}}

Answers(a) == {i \in 1..Len(outbound[a]) : outbound[a][i].seq > 0}
AnswersTo(a, k) == {i \in 1..Len(outbound[a]) : outbound[a][i].seq = k}

\* C11: on one connection the response to the k-th frame read is written
\* before the (k+1)-th frame is read, and the responses are written in the
\* order of the frames: the i-th response answers the i-th frame.
C11_StrictAlternation ==
    \A a \in Addresses :
        /\ Len(received[a]) <= Cardinality(Answers(a)) + 1
        /\ \A i \in Answers(a) : outbound[a][i].seq = i
        /\ srv_pc[a] = "draining" => Cardinality(Answers(a)) = Len(received[a])

C11_Witness ==
    \E a \in Addresses :
        /\ Len(received[a]) = 2
        /\ Len(outbound[a]) = 2
        /\ ~outbound[a][1].response.success
        /\ outbound[a][2].response.success
        /\ srv_pc[a] = "reading"

SizeErrorSent(a) ==
    \E i \in 1..Len(outbound[a]) :
        DictGet(outbound[a][i].response.payload, <<"error_code">>)
            = JStr(<<"MaxMessageSizeReceived">>)

\* C12: after a frame larger than max_message_size the server answers with a
\* MaxMessageSizeReceived error and keeps the connection: the server does
\* not close it, the user stays, and the loop goes on reading.
C12_SizeErrorKeepsConnection ==
    \A a \in Addresses :
        /\ (srv_pc[a] = "draining_error" /\ link[a] = "up") => SizeErrorSent(a)
        /\ (SizeErrorSent(a) /\ srv_pc[a] # "draining_error") =>
              /\ link[a] # "closed"
              /\ link[a] = "up" => (srv_pc[a] \in {"reading", "draining"} /\ a \in users)

\* The frame does not decode: Request.load raises.
FailsToDecode(frame) == \A fresh \in Uuids : ~RequestLoad(frame, fresh).ok

\* Connection a is as the claim wants it after its k-th frame: the frame has
\* its error response, the loop is running on, and the frame after it, once
\* read, has the response handle gives for its bytes alone.
ServedAfter(a, k) ==
    /\ \E i \in AnswersTo(a, k) : ~outbound[a][i].response.success
    /\ (k = Len(received[a]) /\ ~SizeErrorSent(a)) =>
          (srv_pc[a] \in {"reading", "draining"} /\ a \in users)
    /\ k < Len(received[a]) =>
          \E i \in AnswersTo(a, k + 1), fresh \in Uuids :
              /\ handle(methods, received[a][k + 1], fresh).out.ok
              /\ outbound[a][i].response
                    = handle(methods, received[a][k + 1], fresh).out.val

\* C13: a frame that fails to decode does not end or corrupt its connection:
\* it gets its error response, and the next frame on the connection is
\* decoded from its own bytes and dispatched.
C13_DecodeFailureKeepsConnection ==
    \A a \in Addresses : \A k \in 1..Len(received[a]) :
        (FailsToDecode(received[a][k]) /\ link[a] = "up") => ServedAfter(a, k)

\* The same for the frames that are text: they fail with a ValidationError.
DecodeFailureKeepsConnectionText ==
    \A a \in Addresses : \A k \in 1..Len(received[a]) :
        (/\ FailsToDecode(received[a][k])
         /\ \A j \in 1..Len(received[a]) : Utf8Decodable(received[a][j])
         /\ link[a] = "up") => ServedAfter(a, k)

\* C14: every frame read from a connection that is open gets exactly one
\* Response frame, on that connection, whatever its outcome, and the server
\* closes no connection on account of a frame it has read.
C14_OneResponsePerFrame ==
    \A a \in Addresses :
        /\ link[a] \in {"up", "eof"} =>
              /\ \A k \in 1..Len(received[a]) : Cardinality(AnswersTo(a, k)) = 1
              /\ srv_pc[a] # "crashed"
        /\ link[a] = "closed" => SizeErrorSent(a)
        /\ \A i \in 1..Len(outbound[a]) :
              outbound[a][i].seq \in 0..Len(received[a])

\* The same for connections whose frames are all text.
OneResponsePerFrameText ==
    \A a \in Addresses :
        (/\ link[a] \in {"up", "eof"}
         /\ \A j \in 1..Len(received[a]) : Utf8Decodable(received[a][j])) =>
            /\ \A k \in 1..Len(received[a]) : Cardinality(AnswersTo(a, k)) = 1
            /\ srv_pc[a] # "crashed"

(***************************************************************************)
(* Trace ids                                                               *)
(***************************************************************************)
\* C15: the Response send returns for a request the server decoded carries
\* the trace_id of the request: the request object's trace_id, the trace_id
\* in the request's headers on the wire and the response's trace_id are
\* one value, and it is not the zero value.
C15_SendTraceId ==
    (call.op = "send" /\ call.decoded.ok) =>
        /\ call.out.ok
        /\ call.out.val.trace_id = call.request.trace_id
        /\ DictGet(call.request.headers, K_trace_id) = call.request.trace_id
        /\ call.decoded.val.trace_id = call.request.trace_id
        /\ call.out.val.trace_id # JStr(ZERO_TRACE_ID)

\* The response send returns carries the trace_id the request was
\* constructed with, the one in its headers, when the handler answers.
SendTraceIdOfHeaders ==
    (call.op = "send" /\ call.served.ok /\ call.served.val.success) =>
        /\ call.out.ok
        /\ call.out.val.trace_id = DictGet(call.request.headers, K_trace_id)

\* The headers object of the frame Response.dump writes.
HeadersOnWire(response) == Loads(Dumps(SchemaDump(response.headers)))

\* C16: every Response frame the dispatcher produces, error responses
\* included, has a headers object that contains trace_id.
C16_ResponseHeadersTraceId ==
    (call.op = "handle" /\ call.out.ok) =>
        /\ HeadersOnWire(call.out.val).ok
        /\ DictHas(HeadersOnWire(call.out.val).val, K_trace_id)

\* The responses of handlers have it: the example handler sets it.
HandlerResponseHeadersTraceId ==
    (call.op = "handle" /\ call.out.ok /\ call.out.val.success) =>
        DictHas(HeadersOnWire(call.out.val).val, K_trace_id)

\* What the scan of Response.load (lines 159-179) makes of a frame: where
\* the headers segment starts, and whether both JSON segments parse.
ScannedHeadersStart(frame) ==
    Find(frame, LBRACE, Find(frame, LBRACE, Find(frame, COLON, 0) + 1) + 1)
ScannedHeaders(frame) == Loads(SliceFrom(frame, ScannedHeadersStart(frame)))
HeadersScanned(frame) ==
    /\ Utf8Decodable(frame)
    /\ ~ResponseFrameInvalid(
           Find(frame, COLON, 0),
           Find(frame, LBRACE, Find(frame, COLON, 0) + 1),
           ScannedHeadersStart(frame))
    /\ Loads(Slice(frame, Find(frame, LBRACE, Find(frame, COLON, 0) + 1),
                   ScannedHeadersStart(frame))).ok
    /\ ScannedHeaders(frame).ok

\* The headers object has no trace_id, or an empty one.
NoTraceId(headers) ==
    \/ ~DictHas(headers, K_trace_id)
    \/ DictAt(headers, K_trace_id) = JStr(<<>>)

\* C17: Response.load of a frame whose headers object has no trace_id, or
\* an empty one, fails with the validation error "trace_id must be set" and
\* constructs no Response.
C17_ResponseLoadNeedsTraceId ==
    (/\ call.op = "response_load"
     /\ HeadersScanned(call.input)
     /\ NoTraceId(ScannedHeaders(call.input).val)) =>
        /\ ~call.out.ok
        /\ call.out.err.cls = "ValidationError"
        /\ DictGet(call.out.err.details, <<"details">>)
              = JObj(<< <<K_trace_id, JStr(<<"must be set">>)>> >>)

C17_Witness ==
    /\ call.op = "response_load"
    /\ HeadersScanned(call.input)
    /\ DictGet(ScannedHeaders(call.input).val, K_trace_id) = JStr(<<>>)
    /\ DictHas(ScannedHeaders(call.input).val, <<"h">>)
    /\ ~call.out.ok
    /\ call.out.err.cls = "ValidationError"

(***************************************************************************)
(* The registry                                                            *)
(***************************************************************************)
\* C18: add_method inserts or overwrites: after it the name maps to the
\* handler just registered, whatever it mapped to before and whatever its
\* case, every other name maps to what it did, and registering the same
\* pair again changes nothing.
C18_RegisterInsertOrOverwrite ==
    call.op = "add_method" =>
        /\ DOMAIN methods = (DOMAIN call.before) \cup {call.method_name}
        /\ methods[call.method_name] = call.func
        /\ \A n \in (DOMAIN call.before) \ {call.method_name} :
              methods[n] = call.before[n]
        /\ add_method(methods, call.method_name, call.func) = methods

C18_Witness ==
    /\ call.op = "add_method"
    /\ call.method_name = <<"M">>
    /\ <<"M">> \in DOMAIN call.before
    /\ <<"m">> \in DOMAIN call.before
    /\ call.before[<<"M">>] # call.func
    /\ methods[<<"M">>] = call.func
    /\ methods[<<"m">>] = call.before[<<"m">>]

(***************************************************************************)
(* The annotation compiler                                                 *)
(***************************************************************************)
\* The keys of a section in declaration order; none for a section that is
\* missing or empty.
SectionKeys(section) ==
    IF Truthy(section) THEN [i \in 1..Len(section[2]) |-> section[2][i][1]] ELSE <<>>

PathsOf(prefix, keys, upper) ==
    [i \in 1..Len(keys) |-> [path |-> prefix \o keys[i], upper |-> upper]]

HasUpper(s) == \E i \in 1..Len(s) : s[i] \in UpperChars
EntirelyLowerCase(s) ==
    /\ \E i \in 1..Len(s) : s[i] \in LowerChars
    /\ \A i \in 1..Len(s) : s[i] \in LowerChars \cup DigitChars \cup {"_"}
NotEntirelyLowerCase(s) == ~EntirelyLowerCase(s)
NotUpperCamelCase(s) == ~check_camel_case(s)

\* The names that break the naming rules, as paths, in the order of the pass:
\* enums, then objects, then methods.  A method name with an uppercase
\* character is one of them, and so is one with no letter at all.
BadPaths(schema) ==
    PathsOf(<<"enums.">>, SelectSeq(SectionKeys(schema.enums), NotUpperCamelCase), TRUE)
    \o PathsOf(<<"objects.">>,
               SelectSeq(SectionKeys(schema.objects), NotUpperCamelCase), TRUE)
    \o PathsOf(<<"methods.">>,
               SelectSeq(SectionKeys(schema.methods), NotEntirelyLowerCase), FALSE)

\* The strings of a field spec, at any depth.
RECURSIVE SpecNames(_)
SpecNames(spec) ==
    IF IsList(spec)
    THEN UNION {SpecNames(spec[2][i]) : i \in 1..Len(spec[2])}
    ELSE {spec[2]}

FieldNames(fields) == UNION {SpecNames(fields[2][j][2]) : j \in 1..Len(fields[2])}

\* The names an object's fields use that are no primitive, no enum of the
\* schema and no object declared before it; own tells whether the object's
\* own name counts as declared before it.
UnresolvedInObjects(schema, own) ==
    LET keys == SectionKeys(schema.objects)
    IN  UNION {(FieldNames(schema.objects[2][i][2]))
                 \ (FIELD_TYPE_PRIMITIVES \cup DictKeys(schema.enums)
                    \cup {keys[j] : j \in 1..(i - 1)}
                    \cup (IF own THEN {keys[i]} ELSE {})) :
               i \in 1..Len(keys)}

\* The names the requests and responses of the methods use that are no
\* primitive, no enum and no object of the schema.
UnresolvedInMethods(schema) ==
    LET raw == IF Truthy(schema.methods) THEN schema.methods[2] ELSE <<>>
    IN  (UNION {UNION {FieldNames(raw[i][2][2][d][2]) : d \in 1..Len(raw[i][2][2])} :
                i \in 1..Len(raw)})
        \ (FIELD_TYPE_PRIMITIVES \cup DictKeys(schema.enums) \cup DictKeys(schema.objects))

MethodsComplete(schema) ==
    \A i \in 1..Len(SectionKeys(schema.methods)) :
        /\ DictHas(schema.methods[2][i][2], <<"request">>)
        /\ DictHas(schema.methods[2][i][2], <<"response">>)

\* Nothing but a name can stop the compilation: every name used is one the
\* compiler finds, and every method has its request and its response.
NamesAside(schema) ==
    /\ UnresolvedInObjects(schema, TRUE) = {}
    /\ UnresolvedInMethods(schema) = {}
    /\ MethodsComplete(schema)

IsCaseError(out) == ~out.ok /\ out.err.cls = "AnnotationCaseError"
\* The path a case error names: the key of its details.
CasePath(e) == DictAt(e.details, <<"details">>)[2][1][1]

\* C19: a name out of case makes the compilation fail, and the first such
\* name the pass meets fails it with a case error naming its path
\* (enums.<name>, objects.<name>, methods.<name>): always for an enum,
\* which nothing precedes, and for an object or a method whenever the
\* schema has no other defect.  A case error names no path but one of a
\* name out of case, so none names a method that is entirely lower_case,
\* and a schema with methods and no other defect whose names are all in
\* case compiles.
C19_CaseErrors ==
    call.op = "compile" =>
        LET schema == call.schema
            bad == BadPaths(schema)
            bad_enums == SelectSeq(SectionKeys(schema.enums), NotUpperCamelCase)
        IN  /\ \A i \in 1..Len(SectionKeys(schema.methods)) :
                  HasUpper(SectionKeys(schema.methods)[i]) => ~call.out.ok
            /\ bad # <<>> => ~call.out.ok
            /\ bad_enums # <<>> =>
                  call.out = Raise(AnnotationCaseError(<<"enums.">> \o bad_enums[1], TRUE))
            /\ (bad # <<>> /\ NamesAside(schema)) =>
                  call.out = Raise(AnnotationCaseError(bad[1].path, bad[1].upper))
            /\ IsCaseError(call.out) =>
                  /\ \E i \in 1..Len(bad) : bad[i].path = CasePath(call.out.err)
                  /\ \A i \in 1..Len(SectionKeys(schema.methods)) :
                        EntirelyLowerCase(SectionKeys(schema.methods)[i]) =>
                            CasePath(call.out.err)
                                # <<"methods.">> \o SectionKeys(schema.methods)[i]
            /\ (bad = <<>> /\ NamesAside(schema) /\ Truthy(schema.methods)
                 /\ \A i \in 1..Len(SectionKeys(schema.methods)) :
                       EntirelyLowerCase(SectionKeys(schema.methods)[i])) =>
                  call.out.ok

\* A method name with an uppercase character after a lowercase one, in a
\* schema whose enums and objects compiled.
C19_Witness ==
    /\ call.op = "compile"
    /\ SectionKeys(call.schema.enums) = <<Co>>
    /\ SectionKeys(call.schema.objects) = <<Li, No>>
    /\ SectionKeys(call.schema.methods) = << <<"g", "e", "t">>, <<"g", "E", "t">> >>
    /\ NamesAside(call.schema)
    /\ call.out = Raise(AnnotationCaseError(<<"methods.", "g", "E", "t">>, FALSE))

IsUnknownSignature(out, names) ==
    \E n \in names : out = Raise(UnknownSignatureError(n))

\* C20: in a schema whose names are in case and whose methods are complete,
\* a name used by a field spec, at any depth, that is no primitive, no enum
\* and no object compiled before (declared earlier, for the field of an
\* object) makes the compilation fail with an unknown_signature error that
\* carries such a name.
C20_UnknownSignature ==
    call.op = "compile" =>
        LET schema == call.schema
            unknown == UnresolvedInObjects(schema, FALSE) \cup UnresolvedInMethods(schema)
        IN  (BadPaths(schema) = <<>> /\ MethodsComplete(schema) /\ unknown # {}) =>
                IsUnknownSignature(call.out, unknown)

\* The same when the object's own name counts as compiled before its fields.
UnknownSignatureOwnNameAside ==
    call.op = "compile" =>
        LET schema == call.schema
            unknown == UnresolvedInObjects(schema, TRUE) \cup UnresolvedInMethods(schema)
        IN  (BadPaths(schema) = <<>> /\ MethodsComplete(schema) /\ unknown # {}) =>
                IsUnknownSignature(call.out, unknown)

\* The names an object's fields use that are objects declared after it, and
\* nothing else the compiler knows by then.
ForwardRefs(schema) ==
    LET keys == SectionKeys(schema.objects)
    IN  UNION {((FieldNames(schema.objects[2][i][2]))
                  \cap {keys[j] : j \in (i + 1)..Len(keys)})
                 \ (FIELD_TYPE_PRIMITIVES \cup DictKeys(schema.enums)
                    \cup {keys[j] : j \in 1..i}) :
               i \in 1..Len(keys)}

\* A defect the pass meets in the enums or in the objects.
DefectBeforeMethods(schema) ==
    \/ SelectSeq(SectionKeys(schema.enums), NotUpperCamelCase) # <<>>
    \/ SelectSeq(SectionKeys(schema.objects), NotUpperCamelCase) # <<>>
    \/ UnresolvedInObjects(schema, TRUE) # {}

\* What a field spec that is one name is compiled to, the enums being
\* looked at before the objects.
NameCompiled(dto, name) ==
    IF name \in FIELD_TYPE_PRIMITIVES THEN FIELD_TYPE_PRIMITIVES_TO_PYTHON_TYPES[name]
    ELSE IF DictHas(dto.enums, name) THEN DictAt(dto.enums, name)
    ELSE ObjectDict(name)

\* Every field of the dict raw whose spec is one name is compiled, in the
\* dict compiled, to what the name stands for in dto.
NamesCompiled(dto, raw, compiled) ==
    \A j \in 1..Len(raw[2]) :
        IsStr(raw[2][j][2]) =>
            /\ DictHas(compiled, raw[2][j][1])
            /\ DictAt(compiled, raw[2][j][1]) = NameCompiled(dto, raw[2][j][2][2])

\* C21: the pass is enums, then objects, then methods, top to bottom.  A
\* field of an object that names an object declared later never compiles:
\* in a schema whose names are in case it fails with the unknown_signature
\* error of a name the objects' pass does not find, the later object's name
\* when nothing else is missing.  A defect in the enums or the objects is
\* reported before anything about the methods.  In a schema that compiles,
\* the fields of objects see every enum and the fields of methods see
\* every enum and every object, wherever it is declared.
C21_SinglePass ==
    call.op = "compile" =>
        LET schema == call.schema
            forward == ForwardRefs(schema)
            missing == UnresolvedInObjects(schema, TRUE)
        IN  /\ forward # {} => ~call.out.ok
            /\ (forward # {} /\ BadPaths(schema) = <<>>) =>
                  /\ IsUnknownSignature(call.out, missing)
                  /\ missing = forward => IsUnknownSignature(call.out, forward)
            /\ DefectBeforeMethods(schema) =>
                  /\ ~call.out.ok
                  /\ call.out.err.cls # "AnnotationNoMethodError"
                  /\ \A i \in 1..Len(SectionKeys(schema.methods)) :
                        /\ call.out.err
                              # RequestOrResponseMissingError(SectionKeys(schema.methods)[i])
                        /\ IsCaseError(call.out) =>
                              CasePath(call.out.err)
                                 # <<"methods.">> \o SectionKeys(schema.methods)[i]
            /\ call.out.ok =>
                  /\ \A i \in 1..Len(SectionKeys(schema.objects)) :
                        NamesCompiled(call.out.val, schema.objects[2][i][2],
                                      call.out.val.objects[2][i][2])
                  /\ \A i \in 1..Len(SectionKeys(schema.methods)) :
                        /\ NamesCompiled(call.out.val,
                                         DictAt(schema.methods[2][i][2], <<"request">>),
                                         call.out.val.methods[2][i][2].request)
                        /\ NamesCompiled(call.out.val,
                                         DictAt(schema.methods[2][i][2], <<"response">>),
                                         call.out.val.methods[2][i][2].response)

\* The first object names the second one; the enums and the methods are
\* sound.
C21_Witness ==
    /\ call.op = "compile"
    /\ SectionKeys(call.schema.enums) = <<Co>>
    /\ SectionKeys(call.schema.objects) = <<No, Li>>
    /\ ForwardRefs(call.schema) = {Li}
    /\ BadPaths(call.schema) = <<>>
    /\ MethodsComplete(call.schema) /\ Truthy(call.schema.methods)
    /\ UnresolvedInMethods(call.schema) = {}
    /\ call.out = Raise(UnknownSignatureError(Li))

\* C22: a schema whose methods are missing or empty never compiles; when
\* its enums and objects have no defect, the pass reaches the methods and
\* the failure is the AnnotationNoMethod error, which is fatal.
C22_NoMethod ==
    (call.op = "compile" /\ ~Truthy(call.schema.methods)) =>
        /\ ~call.out.ok
        /\ call.out.val = NONE
        /\ ~DefectBeforeMethods(call.schema) =>
              /\ call.out = Raise(AnnotationNoMethodError)
              /\ call.out.err.error_code = <<"AnnotationNoMethod">>
              /\ is_fatal(call.out.err)

\* Enums and objects that compile, and an empty methods section.
C22_Witness ==
    /\ call.op = "compile"
    /\ call.schema.methods = EmptyDict
    /\ SectionKeys(call.schema.enums) = <<Co>>
    /\ SectionKeys(call.schema.objects) = <<Li, No>>
    /\ ~DefectBeforeMethods(call.schema)
    /\ call.out = Raise(AnnotationNoMethodError)

AnnotationErrorClasses ==
    {"AnnotationValidationError", "AnnotationUnknownFieldTypeError",
     "AnnotationCaseError", "AnnotationEnumNotFoundError",
     "AnnotationObjectNotFoundError", "AnnotationNoMethodError"}
TransportSetupErrorClasses == {"ServerFatalError", "ClientFatalError"}
PerRequestErrorClasses ==
    {"ValidationError", "InvalidMessageFormatError", "UnknownMethodError",
     "MethodInternalError", "MaxMessageSizeReceivedError"}

\* C24: every annotation error and every transport setup error is fatal
\* (its log_level is CRITICAL), and no per-request error is, whatever its
\* details.
C24_SeverityByKind ==
    call.op = "handle_error" =>
        /\ call.error.cls \in AnnotationErrorClasses \cup TransportSetupErrorClasses =>
              is_fatal(call.error) /\ call.error.log_level = CRITICAL
        /\ call.error.cls \in PerRequestErrorClasses =>
              ~is_fatal(call.error) /\ call.error.log_level = WARNING

\* The error of a refused connection, as BaseClient.connect raises it.
C24_Witness ==
    /\ call.op = "handle_error"
    /\ call.error = ClientFatalError(FromBaseExceptionDetails(ConnectionRefusedError))
    /\ is_fatal(call.error)
    /\ call.exit_if_fatal /\ call.out.exited

(***************************************************************************)
(* Logging                                                                 *)
(***************************************************************************)
\* The severity of the failure an error response reports: its tag tells it.
FailureSeverity(response) ==
    IF response.method_name = ErrorTag(WARNING) THEN WARNING ELSE ERROR

\* The log of connection a has a record about a failure, at the given
\* level, made when k - 1 responses had been written: before the k-th.
LoggedBeforeResponse(a, k, levels) ==
    \E i \in 1..Len(log[a]) :
        /\ log[a][i].at = k - 1
        /\ log[a][i].about \notin {"connected", "disconnected"}
        /\ log[a][i].level \in levels

\* C25: every failure the server answers with an error response (a frame
\* that does not decode, an unknown method, a failing handler, an oversize
\* frame) was logged at its severity before the response was written.
C25_FailuresLogged ==
    \A a \in Addresses : \A k \in 1..Len(outbound[a]) :
        ~outbound[a][k].response.success =>
            LoggedBeforeResponse(a, k, {FailureSeverity(outbound[a][k].response)})

\* What the server logs: an oversize frame, at DEBUG, before it replies; the
\* failures handle turns into responses are not logged at all.
SizeViolationLoggedAtDebug ==
    \A a \in Addresses : \A k \in 1..Len(outbound[a]) :
        ~outbound[a][k].response.success =>
            (LoggedBeforeResponse(a, k, {DEBUG, INFO, WARNING, ERROR, CRITICAL})
             <=> /\ outbound[a][k].seq = 0
                 /\ LoggedBeforeResponse(a, k, {DEBUG}))

(***************************************************************************)
(* Response.load: the status token and the format test                     *)
(***************************************************************************)
FirstColon(frame) == Find(frame, COLON, 0)
FirstBrace(frame) == Find(frame, LBRACE, 0)
\* The frame has a ':' before its first '{', and a method name before it.
HasStatus(frame) ==
    /\ FirstColon(frame) > 0
    /\ FirstBrace(frame) > FirstColon(frame)
\* The token between that ':' and the first '{'.
StatusToken(frame) == Slice(frame, FirstColon(frame) + 1, FirstBrace(frame))

IsInvalidMessageFormat(out) ==
    /\ ~out.ok
    /\ out.err.cls = "ValidationError"
    /\ DictGet(out.err.details, <<"details">>) = InvalidMessageFormatDetails

\* C26: Response.load fails with the InvalidMessageFormat error on every
\* frame whose status token is neither ok nor err, and a Response it loads
\* has success true exactly when the token is ok.
C26_StatusToken ==
    (/\ call.op = "response_load"
     /\ Utf8Decodable(call.input)
     /\ HasStatus(call.input)) =>
        /\ StatusToken(call.input) \notin {<<"ok">>, <<"err">>} =>
              IsInvalidMessageFormat(call.out)
        /\ call.out.ok => (call.out.val.success <=> StatusToken(call.input) = <<"ok">>)

\* The second half alone: success is true exactly when the token is ok.
SuccessIffTokenOk ==
    (/\ call.op = "response_load"
     /\ Utf8Decodable(call.input)
     /\ HasStatus(call.input)
     /\ call.out.ok) =>
        (call.out.val.success <=> StatusToken(call.input) = <<"ok">>)

\* No ':' comes before the first '{': there is no ':' at all, or the first
\* one is after the first '{'.
NoColonBeforeBrace(frame) ==
    \/ FirstColon(frame) = -1
    \/ FirstBrace(frame) # -1 /\ FirstBrace(frame) < FirstColon(frame)

\* C27: Response.load fails with the InvalidMessageFormat error on every
\* frame with no ':' before its first '{', and on every frame whose method
\* name, before the ':', is empty.
C27_ColonBeforeBrace ==
    (/\ call.op = "response_load"
     /\ Utf8Decodable(call.input)
     /\ (NoColonBeforeBrace(call.input) \/ FirstColon(call.input) = 0)) =>
        IsInvalidMessageFormat(call.out)

\* The frames it does reject so: an empty method name, no ':' at all, and
\* fewer than two '{' after the first ':'.
ColonAndBracesAfterIt ==
    (/\ call.op = "response_load"
     /\ Utf8Decodable(call.input)
     /\ \/ FirstColon(call.input) \in {-1, 0}
        \/ NumBraces(SliceFrom(call.input, FirstColon(call.input) + 1)) < 2) =>
        IsInvalidMessageFormat(call.out)

\* The frame passes the format test of the loader and one of the two
\* segments the loader cuts is not JSON.
RequestSegmentsUnparseable(frame) ==
    LET p == Find(frame, LBRACE, 0)
        h == Find(frame, LBRACE, p + 1)
    IN  /\ Utf8Decodable(frame)
        /\ ~RequestFrameInvalid(p, h)
        /\ ~Loads(Slice(frame, p, h)).ok \/ ~Loads(SliceFrom(frame, h)).ok
ResponseSegmentsUnparseable(frame) ==
    LET c == Find(frame, COLON, 0)
        p == Find(frame, LBRACE, c + 1)
        h == Find(frame, LBRACE, p + 1)
    IN  /\ Utf8Decodable(frame)
        /\ ~ResponseFrameInvalid(c, p, h)
        /\ ~Loads(Slice(frame, p, h)).ok \/ ~Loads(SliceFrom(frame, h)).ok

WrapsParseError(out) ==
    /\ ~out.ok
    /\ out.err.cls = "ValidationError"
    /\ DictGet(out.err.details, <<"details">>) = FromBaseExceptionDetails(JSONDecodeError)

\* C28: Request.load and Response.load fail, on a payload or headers
\* segment that is not JSON, with a ValidationError whose details are the
\* class name and the message of the parse error, never with the parse
\* error itself.
C28_ParseErrorWrapped ==
    /\ (call.op = "request_load" /\ RequestSegmentsUnparseable(call.input)) =>
          WrapsParseError(call.out)
    /\ (call.op = "response_load" /\ ResponseSegmentsUnparseable(call.input)) =>
          WrapsParseError(call.out)

\* Request.load does.
RequestLoadWrapsParseError ==
    (call.op = "request_load" /\ RequestSegmentsUnparseable(call.input)) =>
        WrapsParseError(call.out)

(***************************************************************************)
(* Field specs that are sequences                                          *)
(***************************************************************************)
\* A union of shapes, as the specification has it for a sequence of more
\* than one element.
Union(shapes) == <<"Union", shapes>>

\* The shape a field spec stands for when a sequence of one element stands
\* for the element's own shape and a longer one for the Union of its
\* elements' shapes.
RECURSIVE ShapeWithUnion(_, _)
ShapeWithUnion(dto, field_value) ==
    IF ~IsList(field_value) THEN NameCompiled(dto, field_value[2])
    ELSE IF Len(field_value[2]) = 1 THEN ShapeWithUnion(dto, field_value[2][1])
    ELSE Union([i \in 1..Len(field_value[2]) |->
                   ShapeWithUnion(dto, field_value[2][i])])

\* The shape a field spec stands for when a sequence stands for the list of
\* its elements' shapes, whatever its length.
RECURSIVE ShapeWithList(_, _)
ShapeWithList(dto, field_value) ==
    IF ~IsList(field_value) THEN NameCompiled(dto, field_value[2])
    ELSE TList([i \in 1..Len(field_value[2]) |->
                   ShapeWithList(dto, field_value[2][i])])

\* The fields compiled by the call: <<spec, compiled value>> for every field
\* of every object and of the request and the response of every method.
FieldsOf(raw, compiled) ==
    {<<raw[2][j][2], DictAt(compiled, raw[2][j][1])>> : j \in 1..Len(raw[2])}

CompiledFields ==
    LET schema == call.schema
        dto == call.out.val
    IN  UNION {FieldsOf(schema.objects[2][i][2], dto.objects[2][i][2]) :
                  i \in 1..Len(SectionKeys(schema.objects))}
        \cup UNION {FieldsOf(DictAt(schema.methods[2][i][2], <<"request">>),
                             dto.methods[2][i][2].request)
                    \cup FieldsOf(DictAt(schema.methods[2][i][2], <<"response">>),
                                  dto.methods[2][i][2].response) :
                       i \in 1..Len(SectionKeys(schema.methods))}

\* C29: every element of a field spec that is a sequence is resolved, also
\* inside a nested sequence; a sequence of one element compiles to the
\* element's own shape and a sequence of more than one element to the Union
\* of the elements' shapes.
C29_SequenceShapes ==
    (call.op = "compile" /\ call.out.ok) =>
        \A f \in CompiledFields : f[2] = ShapeWithUnion(call.out.val, f[1])

\* What the compilation does with a sequence: the field is the list of the
\* shapes of its elements, in their order, each resolved as a field spec of
\* its own; a sequence of one element is a list of one shape.
SequenceCompiledToList ==
    (call.op = "compile" /\ call.out.ok) =>
        \A f \in CompiledFields : f[2] = ShapeWithList(call.out.val, f[1])

(***************************************************************************)
(* Progress of send                                                        *)
(***************************************************************************)
\* C30: when the server answers every request, every call of send, the
\* first one on a freshly constructed client and every later one, gets past
\* locking_event.wait(), writes its request and returns a Response: a caller
\* inside send is eventually at its return.
C30_SendReturns ==
    \A c \in Callers :
        (pc[c] \in {"waiting", "woken", "draining", "reading", "readable"})
            ~> (pc[c] = "done")

\* What holds of the progress of send: a caller whose wait() has returned
\* writes its request, and a caller that has written its request leaves
\* send, with a Response or with the reader's RuntimeError.
WrittenSendEnds ==
    \A c \in Callers :
        /\ (pc[c] = "woken") ~> (pc[c] = "draining")
        /\ (pc[c] \in {"draining", "reading", "readable"})
              ~> (pc[c] \in {"done", "failed"})

\* On a client whose locking_event nothing has set, no caller is past wait().
NoSendPastWaitOnFreshClient ==
    [][(\A c \in Callers : pc[c] \in {"idle", "waiting"}) /\ ~locking_event
          => \/ ExternalSet
             \/ (\A c \in Callers : pc'[c] \in {"idle", "waiting"}) /\ ~locking_event']_vars

(***************************************************************************)
(* The users map and the connections' tasks                                *)
(***************************************************************************)
\* The connections whose _handle_connection task is in its loop.
RunningLoops ==
    {a \in Addresses : srv_pc[a] \in {"reading", "draining", "draining_error"}}

\* How many times _user_disconnected has been run for connection a: every
\* run logs its debug message first.
RECURSIVE CountAbout(_, _)
CountAbout(records, about) ==
    IF records = <<>> THEN 0
    ELSE (IF Head(records).about = about THEN 1 ELSE 0)
         + CountAbout(Tail(records), about)
Disconnects(a) == CountAbout(log[a], "disconnected")

\* C31: users holds exactly the connections whose handling loop is still
\* running, and _user_disconnected is run at most once for a connection: it
\* is never run for a user that has been removed already.
C31_UsersAreRunningLoops ==
    /\ users = RunningLoops
    /\ \A a \in Addresses : Disconnects(a) <= 1

\* What holds of the bookkeeping.  A connection is in users from _make_user
\* on and is taken out by _user_disconnected only; while no connection has
\* been lost and no task has been left by an exception, users is the set of
\* the running loops and every ended loop has disconnected its user once.
\* _user_disconnected is never run a third time.
BookkeepingWithoutFailures ==
    /\ \A a \in Addresses :
          /\ srv_pc[a] = "none" => a \notin users /\ Disconnects(a) = 0
          /\ a \in users => Disconnects(a) = 0
          /\ Disconnects(a) <= 2
          /\ srv_pc[a] = "ended" => a \notin users /\ Disconnects(a) = 1
    /\ (\A a \in Addresses : link[a] # "broken" /\ srv_pc[a] # "crashed")
          => /\ users = RunningLoops
             /\ \A a \in Addresses : Disconnects(a) <= 1

\* _user_disconnected has been run twice for one connection: the second run
\* found the user removed.
DisconnectedTwice ==
    \E a \in Addresses :
        Disconnects(a) = 2 /\ a \notin users /\ srv_pc[a] = "crashed"

\* A loop still running whose user is not in users.
RunningWithoutUser == \E a \in RunningLoops : a \notin users

\* A task that has ended with its user still in users.
EndedWithUser ==
    \E a \in users : srv_pc[a] = "crashed" /\ Disconnects(a) = 0

(***************************************************************************)
(* Objects that name themselves                                            *)
(***************************************************************************)
\* The objects a compiled field refers to, at any depth of a list.
RECURSIVE ObjectsReferred(_)
ObjectsReferred(compiled) ==
    IF compiled[1] = "dict" THEN {compiled[2]}
    ELSE IF compiled[1] = "list"
    THEN UNION {ObjectsReferred(compiled[2][i]) : i \in 1..Len(compiled[2])}
    ELSE {}

\* The objects the compiled fields of the i-th object of dto refer to.
ReferredByObject(dto, i) ==
    UNION {ObjectsReferred(dto.objects[2][i][2][2][j][2]) :
              j \in 1..Len(dto.objects[2][i][2][2])}

\* The objects whose fields use their own name and no enum of that name.
SelfReferring(schema) ==
    {SectionKeys(schema.objects)[i] : i \in 1..Len(SectionKeys(schema.objects))}
    \cap {k \in DictKeys(schema.objects) \ DictKeys(schema.enums) :
             k \in FieldNames(DictAt(schema.objects, k))}

\* C32: while the fields of an object are compiled, the object names that
\* resolve are those of the objects declared earlier.  A field of object X
\* that names X fails the compilation as any unresolved reference does, with
\* the unknown_signature error when the names are in case, and in a schema
\* that compiles no field of an object refers to the object itself or to a
\* later one.
C32_OnlyEarlierObjectsResolve ==
    call.op = "compile" =>
        LET schema == call.schema
            keys == SectionKeys(schema.objects)
        IN  /\ SelfReferring(schema) # {} =>
                  /\ ~call.out.ok
                  /\ BadPaths(schema) = <<>> =>
                        IsUnknownSignature(call.out, UnresolvedInObjects(schema, FALSE))
            /\ call.out.ok =>
                  \A i \in 1..Len(keys) :
                      ReferredByObject(call.out.val, i) \subseteq {keys[j] : j \in 1..(i - 1)}

\* What holds: the names that resolve in the fields of an object are the
\* objects declared earlier and the object itself, which is in self.objects,
\* with no field yet, from before its first field is converted.  A later
\* object never resolves.
EarlierObjectsAndItselfResolve ==
    call.op = "compile" =>
        LET schema == call.schema
            keys == SectionKeys(schema.objects)
        IN  /\ (UnresolvedInObjects(schema, TRUE) # {} /\ BadPaths(schema) = <<>>) =>
                  IsUnknownSignature(call.out, UnresolvedInObjects(schema, TRUE))
            /\ call.out.ok =>
                  \A i \in 1..Len(keys) :
                      ReferredByObject(call.out.val, i) \subseteq {keys[j] : j \in 1..i}

\* A schema whose object No has a field of type No compiles, and the field
\* refers to No.
SelfReferenceCompiles ==
    /\ call.op = "compile"
    /\ call.out.ok
    /\ No \in SelfReferring(call.schema)
    /\ \E i \in 1..Len(SectionKeys(call.schema.objects)) :
          /\ SectionKeys(call.schema.objects)[i] = No
          /\ No \in ReferredByObject(call.out.val, i)
====
